---- MODULE Spec2Model ----
(***************************************************************************)
(* A model of DataViewer's ingestion/caching pipeline                      *)
(* (src/dataviewer/data_indexing.py) and of its query layer                *)
(* (src/dataviewer/app.py).                                                *)
(*                                                                         *)
(* Python strings are modelled as sequences of one-character strings, so   *)
(* that urlparse and PurePosixPath are computed character by character.    *)
(* Python's None is the model value None; a raised exception is a record   *)
(* [err |-> <class or message>, ...].                                      *)
(***************************************************************************)
EXTENDS Integers, Sequences, FiniteSets, TLC

None == "None"

(***************************************************************************)
(* The state                                                               *)
(***************************************************************************)
\* One call of a pure function (get_dataset_name, infer_format, _get_columns,
\* the cache key).
VARIABLES
    call,      \* the pending call of a pure function: [fn, ...arguments]
    ret,       \* what the call returned or raised
    callPc     \* "ready" before the call has run, "returned" after

\* One _stream_dataset generator and its consumer.
VARIABLES
    sArgs,     \* the arguments the generator was created with
    sPc,       \* "created", "yielded" (suspended at line 155), "done", "raised"
    sLog,      \* the steps the generator body has taken
    sOut,      \* the batches yielded so far, each a sequence of row numbers
    sSchemas,  \* the schemas of the batches yielded so far
    sCols,     \* the projected columns of the yielded batches
    sRest,     \* the rows collect_batches has not delivered yet
    sCount,    \* the progress bar: n and total
    sErr       \* the exception the generator raised, "" if none

\* The cache store and the build_lance_index invocations.
VARIABLES
    tables,        \* the cache store: key -> table
    bpc,           \* each invocation's position: "idle", "ingest", "created", "indexed", "done"
    bargs,         \* its arguments: [view_args, reindex]
    bkey,          \* its dataset_hash
    bret,          \* what it returned or raised
    blog,          \* the source and cache-store operations it has performed
    bcalls,        \* how many invocations the process has started
    bexisted,      \* whether the key's table existed when it listed the tables
    bseen,         \* whether an earlier invocation had returned its key before it started
    returnedKeys,  \* the keys returned by completed invocations
    failedKeys,    \* the keys of the invocations that raised after the cache test
    bfailed,       \* whether an earlier invocation for its key had raised before it started
    lastCreate     \* per key, the source written by the create_table that completed last

\* One request to the search handler.
VARIABLES
    searchRequest,    \* the search request
    searchResponse,   \* its response
    spc         \* "pending" until the handler has answered, then "answered"

\* The facet memo of the serving process and the facet requests of its clients.
VARIABLES
    facetsCache,    \* _FACETS_CACHE: [set, facets]; set is FALSE while it is None
    facetTable,     \* the rows of the registered table
    facetColumns,   \* config.facet_columns: [given, cols]
    fpc,            \* each client's request: "idle", "pending", "done"
    fret,           \* what its latest request returned or raised
    fqueries,       \* how many table queries its latest request executed
    fhit,           \* whether the memo was set when its latest request ran
    fconc,          \* whether another request was pending when its latest request ran
    fcalls,         \* how many requests the client has sent
    fwrites,        \* how many times the memo has been assigned
    ffirst          \* the response of the first request that succeeded

\* The row-visualization handler of the serving process.
VARIABLES
    visSettings,            \* the keyword arguments the configuration was built from
    visConfig,              \* get_config(): the attributes the configuration object has
    row_visualizer_plugin,  \* the process-wide plugin instance, 0 for None
    visRequest,             \* the request being answered
    visResponse,            \* the response of the latest request
    vpc,                    \* "idle", "pending", "done"
    vloads,                 \* the paths load_plugin was called with by the latest request
    vbefore,                \* the process-wide plugin when the latest request arrived
    vinstances,             \* how many plugin instances have been created
    vcalls                  \* how many requests have been sent

pureVars == <<call, ret, callPc>>

streamVars == <<sArgs, sPc, sLog, sOut, sSchemas, sCols, sRest, sCount, sErr>>

buildVars == <<tables, bpc, bargs, bkey, bret, blog, bcalls, bexisted, bseen,
               returnedKeys, failedKeys, bfailed, lastCreate>>

searchVars == <<searchRequest, searchResponse, spc>>

facetVars == <<facetsCache, facetTable, facetColumns, fpc, fret, fqueries, fhit, fconc, fcalls,
               fwrites, ffirst>>

visVars == <<visSettings, visConfig, row_visualizer_plugin, visRequest, visResponse, vpc,
             vloads, vbefore, vinstances, vcalls>>

vars == <<pureVars, streamVars, buildVars, searchVars, facetVars, visVars>>

(***************************************************************************)
(* String helpers (str.find, str.rfind, str.split, slicing, concatenation) *)
(***************************************************************************)
Letters == {"a", "b", "c", "d", "e", "i", "j", "k", "l", "n", "o", "p", "q",
            "r", "s", "t", "u", "v", "x"}
Digits == {"0", "1", "3"}

\* str.find(c) with 1-based positions: 0 when c does not occur.
Find(s, c) ==
    IF \E i \in 1..Len(s) : s[i] = c
    THEN CHOOSE i \in 1..Len(s) : s[i] = c /\ \A k \in 1..(i - 1) : s[k] # c
    ELSE 0

\* str.rfind(c) with 1-based positions: 0 when c does not occur.
RFind(s, c) ==
    IF \E i \in 1..Len(s) : s[i] = c
    THEN CHOOSE i \in 1..Len(s) : s[i] = c /\ \A k \in (i + 1)..Len(s) : s[k] # c
    ELSE 0

\* First position >= from of any character of chars, Len(s) + 1 when none.
FindAny(s, chars, from) ==
    IF \E i \in from..Len(s) : s[i] \in chars
    THEN CHOOSE i \in from..Len(s) : s[i] \in chars /\ \A k \in from..(i - 1) : s[k] \notin chars
    ELSE Len(s) + 1

Contains(s, c) == \E i \in 1..Len(s) : s[i] = c

RECURSIVE Split(_, _)
\* s.split(sep) for a one-character separator.
Split(s, sep) ==
    LET i == Find(s, sep)
    IN IF i = 0 THEN <<s>>
       ELSE <<SubSeq(s, 1, i - 1)>> \o Split(SubSeq(s, i + 1, Len(s)), sep)

(***************************************************************************)
(* urllib.parse.urlparse, as far as get_dataset_name and infer_format use  *)
(* it: the scheme and the path.                                            *)
(***************************************************************************)
SchemeChars == Letters \cup Digits \cup {"+", "-", "."}

\* A returned string, or a raised exception: err is the exception ("" when
\* none) and arg the string the message quotes.
Ok(v) == [ok |-> TRUE, val |-> v, err |-> "", arg |-> <<>>]
Raise(e, a) == [ok |-> FALSE, val |-> <<>>, err |-> e, arg |-> a]

\* The path of a URL without its scheme and authority: the fragment is cut
\* at the first "#", then the query at the first "?".
StripFragment(rest) ==
    LET h == Find(rest, "#") IN IF h > 0 THEN SubSeq(rest, 1, h - 1) ELSE rest

StripQuery(rest) ==
    LET q == Find(rest, "?") IN IF q > 0 THEN SubSeq(rest, 1, q - 1) ELSE rest

\* ok is FALSE when urlsplit raises ValueError for a bracket in the netloc
\* without its partner.
UrlResult(scheme, netloc, rest) ==
    [ok |-> Contains(netloc, "[") = Contains(netloc, "]"),
     scheme |-> scheme, netloc |-> netloc, path |-> StripQuery(StripFragment(rest))]

\* What follows the scheme: "//" starts an authority, which ends before the
\* first of "/", "?", "#".
UrlAfterScheme(scheme, rest) ==
    IF Len(rest) >= 2 /\ rest[1] = "/" /\ rest[2] = "/"
    THEN UrlResult(scheme, SubSeq(rest, 3, FindAny(rest, {"/", "?", "#"}, 3) - 1),
                   SubSeq(rest, FindAny(rest, {"/", "?", "#"}, 3), Len(rest)))
    ELSE UrlResult(scheme, <<>>, rest)

\* A scheme is a letter followed by scheme characters, up to the first ":".
HasScheme(url, i) ==
    /\ i > 1
    /\ url[1] \in Letters
    /\ \A k \in 1..(i - 1) : url[k] \in SchemeChars

urlparse(url) ==
    LET i == Find(url, ":")
    IN IF HasScheme(url, i)
       THEN UrlAfterScheme(SubSeq(url, 1, i - 1), SubSeq(url, i + 1, Len(url)))
       ELSE UrlAfterScheme(<<>>, url)

(***************************************************************************)
(* pathlib.PurePosixPath: parts, name, parent, suffix, stem.               *)
(* A path is modelled by the sequence of its non-root parts.               *)
(***************************************************************************)
IsPart(seg) == seg # <<>> /\ seg # <<".">>

PurePosixPath(raw) == SelectSeq(Split(raw, "/"), IsPart)

PathName(parts) == IF parts = <<>> THEN <<>> ELSE parts[Len(parts)]

PathParent(parts) == IF parts = <<>> THEN <<>> ELSE SubSeq(parts, 1, Len(parts) - 1)

\* The suffix starts at the name's last dot, unless that dot opens or ends
\* the name.
NameSuffix(name, i) == IF 1 < i /\ i < Len(name) THEN SubSeq(name, i, Len(name)) ELSE <<>>

NameStem(name, i) == IF 1 < i /\ i < Len(name) THEN SubSeq(name, 1, i - 1) ELSE name

PathSuffix(parts) == NameSuffix(PathName(parts), RFind(PathName(parts), "."))

PathStem(parts) == NameStem(PathName(parts), RFind(PathName(parts), "."))

(***************************************************************************)
(* DatasetFormat, get_dataset_name, infer_format                           *)
(***************************************************************************)
csv == <<"c", "s", "v">>
tsv == <<"t", "s", "v">>
json == <<"j", "s", "o", "n">>
jsonl == <<"j", "s", "o", "n", "l">>
parquet == <<"p", "a", "r", "q", "u", "e", "t">>
lance == <<"l", "a", "n", "c", "e">>

\* The enum's members, each identified with its value.
DatasetFormat == {csv, jsonl, parquet, lance}

WildcardChars == {"*", "?", "[", "]"}

\* raw_path = parsed.path if parsed.scheme else dataset_path
RawPathOf(dataset_path, parsed) ==
    IF ~parsed.ok THEN Raise("ValueError: Invalid IPv6 URL", dataset_path)
    ELSE IF parsed.scheme # <<>> THEN Ok(parsed.path) ELSE Ok(dataset_path)

RawPath(dataset_path) == RawPathOf(dataset_path, urlparse(dataset_path))

\* return path.stem if path.suffix else path.name
StemOrName(path) == IF PathSuffix(path) # <<>> THEN PathStem(path) ELSE PathName(path)

\* Lines 34-37: a wildcard in the name moves to the parent.
NameOfPath(path) ==
    IF \E ch \in WildcardChars : Contains(PathName(path), ch)
    THEN StemOrName(PathParent(path)) ELSE StemOrName(path)

NameOfRaw(raw_path) ==
    IF ~raw_path.ok THEN raw_path ELSE Ok(NameOfPath(PurePosixPath(raw_path.val)))

\* A variant that keeps the directories in the name.
get_dataset_name_with_directory(dataset_path) == RawPath(dataset_path)

get_dataset_name(dataset_path) == NameOfRaw(RawPath(dataset_path))

\* Lines 53-62: the suffix table.
FormatOfSuffix(suffix, dataset_path) ==
    IF suffix \in {<<".">> \o csv, <<".">> \o tsv} THEN Ok(csv)
    ELSE IF suffix \in {<<".">> \o json, <<".">> \o jsonl} THEN Ok(jsonl)
    ELSE IF suffix = <<".">> \o parquet THEN Ok(parquet)
    ELSE IF suffix = <<".">> \o lance THEN Ok(lance)
    ELSE Raise("ValueError: Unsupported dataset format for path", dataset_path)

FormatOfRaw(raw_path, dataset_path) ==
    IF ~raw_path.ok THEN raw_path
    ELSE FormatOfSuffix(PathSuffix(PurePosixPath(raw_path.val)), dataset_path)

infer_format(dataset_path) == FormatOfRaw(RawPath(dataset_path), dataset_path)

(***************************************************************************)
(* _get_columns.  Column lists are modelled as sets (the code converts     *)
(* every list with set() before using it); an optional list is a record    *)
(* [given, cols], given = FALSE standing for None.                         *)
(***************************************************************************)
NoCols == [given |-> FALSE, cols |-> {}]
SomeCols(c) == [given |-> TRUE, cols |-> c]

ColsOk(c) == [ok |-> TRUE, val |-> c, err |-> "", names |-> {}]
ColsRaise(e, n) == [ok |-> FALSE, val |-> {}, err |-> e, names |-> n]

\* A variant that validates the exclude list against the dataset's columns
\* instead of the included ones.
get_columns_exclude_vs_all(all_column, include_cols, exclude_cols) ==
    LET invalid_include == include_cols.cols \ all_column
        set1 == IF include_cols.given THEN include_cols.cols ELSE all_column
        invalid_exclude == exclude_cols.cols \ all_column
    IN IF include_cols.given /\ invalid_include # {}
       THEN ColsRaise("ValueError: Included columns not found in dataset", invalid_include)
       ELSE IF exclude_cols.given /\ invalid_exclude # {}
       THEN ColsRaise("ValueError: Excluded columns not found in dataset", invalid_exclude)
       ELSE IF exclude_cols.given THEN ColsOk(set1 \ exclude_cols.cols)
       ELSE ColsOk(set1)

get_columns(all_column, include_cols, exclude_cols) ==
    LET invalid_include == include_cols.cols \ all_column
        set1 == IF include_cols.given THEN include_cols.cols ELSE all_column
        invalid_exclude == exclude_cols.cols \ set1
    IN IF include_cols.given /\ invalid_include # {}
       THEN ColsRaise("ValueError: Included columns not found in dataset", invalid_include)
       ELSE IF exclude_cols.given /\ invalid_exclude # {}
       THEN ColsRaise("ValueError: Excluded columns not found in dataset", invalid_exclude)
       ELSE IF exclude_cols.given THEN ColsOk(set1 \ exclude_cols.cols)
       ELSE ColsOk(set1)

(***************************************************************************)
(* The cache key of build_lance_index:                                     *)
(*   hashlib.md5(f"{dataset_name}_{dataset_format.value}".encode())        *)
(* MD5 itself is not computed: a digest is represented by the string it    *)
(* digests, i.e. MD5 is taken to be collision-free on the modelled inputs. *)
(***************************************************************************)
\* A variant that leaves the format out of the digested string.
HashInputNameOnly(dataset_name, dataset_format) == dataset_name

HashInput(dataset_name, dataset_format) == dataset_name \o <<"_">> \o dataset_format

md5_hexdigest(s) == [md5 |-> s]

dataset_hash(dataset_name, dataset_format) ==
    md5_hexdigest(HashInput(dataset_name, dataset_format))

(***************************************************************************)
(* Inputs of the pure functions                                            *)
(***************************************************************************)
\* Locations are assembled as scheme . dir . stem . wild . ext
LocSchemes == {<<>>, <<"s", "3", ":", "/", "/", "b">>}

\* text: the directory part; parent: the name get_dataset_name is expected to
\* derive from its last segment.
LocDirs == {[text |-> <<>>, parent |-> <<>>, abs |-> FALSE],
            [text |-> <<"/">>, parent |-> <<>>, abs |-> TRUE],
            [text |-> <<"/", "p", "/", "t", "o", "/">>, parent |-> <<"t", "o">>, abs |-> TRUE],
            [text |-> <<"/", "d", ".", "v", "/">>, parent |-> <<"d">>, abs |-> TRUE],
            [text |-> <<"x", "/">>, parent |-> <<"x">>, abs |-> FALSE]}

LocStems == {<<>>, <<"a">>, <<"a", "b">>}

LocWilds == {<<>>, <<"*">>, <<"?">>, <<"[", "0", "]">>}

LocExts == {<<>>, <<".">> \o csv, <<".">> \o tsv, <<".">> \o json, <<".">> \o jsonl,
            <<".">> \o parquet, <<".">> \o lance, <<".", "t", "x", "t">>, <<".">>}

\* A location with a scheme has an absolute path after its authority.
LocParts == {l \in [scheme : LocSchemes, dir : LocDirs, stem : LocStems,
                    wild : LocWilds, ext : LocExts] :
                l.scheme # <<>> => l.dir.abs}

LocText(l) == l.scheme \o l.dir.text \o l.stem \o l.wild \o l.ext

Columns == {"id", "name", "age"}

OptCols == {NoCols} \cup {SomeCols(c) : c \in SUBSET Columns}

\* Dataset names for the cache key: any string, here the ones whose
\* concatenation with a format could be confused with another pair's.
KeyNameTails == {<<>>, <<"_">>, <<"_">> \o csv, <<"_">> \o jsonl, <<"_">> \o lance,
                 <<"_">> \o parquet, csv}

KeyNames == {h \o t1 \o t2 : h \in {<<>>, <<"a">>}, t1 \in KeyNameTails,
                               t2 \in {<<>>, <<"_">> \o csv}}

KeyPairs == KeyNames \X DatasetFormat



(***************************************************************************)
(* _stream_dataset: a generator.  Its body runs from the top to the first  *)
(* yield when the consumer first asks for a batch, and from yield to yield *)
(* afterwards.  A source file is [exists, nrows]; its rows are numbered    *)
(* 0 .. nrows-1 and its columns are SourceColumns.                         *)
(***************************************************************************)
MaxRows == 2
MaxBatch == 2

SourceColumns == {"id", "name"}

NoInt == [given |-> FALSE, v |-> 0]
SomeInt(n) == [given |-> TRUE, v |-> n]
OptInts == {NoInt} \cup {SomeInt(n) : n \in 0..(MaxRows + 1)}

Min(a, b) == IF a < b THEN a ELSE b

\* The rows of a source, in source order.
SourceRows(nrows) == [i \in 1..nrows |-> i - 1]

\* LazyFrame.slice(offset, length) for offset >= 0 and length >= 0.
Slice(rows, offset, length) == SubSeq(rows, offset + 1, Min(offset + length, Len(rows)))

ScanFormats == {parquet, csv, jsonl}

ConflictError == "ValueError: Cannot specify both limit and row_start/row_end"

\* The window test of lines 128-129.
WindowConflict(limit, row_start, row_end) ==
    limit.given /\ (row_start.given \/ row_end.given)

\* Lines 131-134: df.slice / df.limit.  polars rejects a negative length.
ApplyWindow(rows, limit, row_start, row_end) ==
    LET sliced == IF row_start.given /\ row_end.given
                  THEN Slice(rows, row_start.v, row_end.v - row_start.v)
                  ELSE rows
    IN IF limit.given THEN Slice(sliced, 0, limit.v) ELSE sliced

NegativeSlice(row_start, row_end) ==
    row_start.given /\ row_end.given /\ row_end.v - row_start.v < 0

\* Lines 114-136: everything the generator does before its batch loop.  log
\* lists the steps taken, in order; the steps that read the source are
\* "collect_schema" (line 123) and "count" (line 136).
StreamPlan(a) ==
    LET cols == get_columns(SourceColumns, a.include_cols, a.exclude_cols)
        fail(e, l) == [ok |-> FALSE, err |-> e, log |-> l, cols |-> {}, rows |-> <<>>]
    IN IF a.dataset_format \notin ScanFormats
       THEN fail("ValueError: Unsupported dataset format for streaming", <<>>)
       ELSE IF ~a.source.exists
       THEN fail("FileNotFoundError", <<"scan", "collect_schema">>)
       ELSE IF ~cols.ok
       THEN fail(cols.err, <<"scan", "collect_schema", "_get_columns">>)
       ELSE IF WindowConflict(a.limit, a.row_start, a.row_end)
       THEN fail(ConflictError,
                 <<"scan", "collect_schema", "_get_columns", "select", "window_check">>)
       ELSE IF NegativeSlice(a.row_start, a.row_end)
       THEN fail("ValueError: negative slice lengths are invalid for LazyFrame",
                 <<"scan", "collect_schema", "_get_columns", "select", "window_check">>)
       ELSE [ok |-> TRUE, err |-> "",
             log |-> <<"scan", "collect_schema", "_get_columns", "select",
                       "window_check", "count">>,
             cols |-> cols.val,
             rows |-> ApplyWindow(SourceRows(a.source.nrows), a.limit, a.row_start, a.row_end)]

\* Arrow types: large marks the 64-bit-offset variant of a list, binary or
\* string type; value is the element type of a list.
ArrowType(kind, large, value) == [kind |-> kind, large |-> large, value |-> value]
Int64 == ArrowType("int64", FALSE, "")
Float64 == ArrowType("double", FALSE, "")
LargeString == ArrowType("string", TRUE, "")
LargeBinary == ArrowType("binary", TRUE, "")
LargeListOf(value) == ArrowType("list", TRUE, value)

\* The schemas batch.to_arrow() gives for the sources of the model.
SourceSchemas ==
    {[id |-> Int64, name |-> LargeString],
     [id |-> LargeBinary, name |-> LargeListOf("large_string")],
     [id |-> Int64, name |-> Float64]}

\* A variant of the narrowing that leaves large lists as they are.
NarrowExceptLists(type) ==
    IF type.kind \in {"binary", "string"} THEN [type EXCEPT !.large = FALSE] ELSE type

\* Lines 142-150: pa.list_(value_type), pa.binary(), pa.string(), or the
\* field as it is.
Narrow(type) ==
    IF type.kind \in {"list", "binary", "string"} /\ type.large
    THEN ArrowType(type.kind, FALSE, type.value)
    ELSE type

\* Lines 139-153: the schema the batch is cast to.
NewSchema(schema, cols) == [c \in cols |-> Narrow(schema[c])]

\* Line 154: arrow_batch.cast(new_schema).  The cast to a type of 32-bit
\* offsets raises when the values of the batch do not fit them; a cast that
\* changes no type cannot raise.
CastOutcomes(schema, cols) ==
    IF \E c \in cols : Narrow(schema[c]) # schema[c] THEN {"cast", "raised"} ELSE {"cast"}

CastError == "ArrowInvalid"

StreamSources == [exists : BOOLEAN, nrows : 0..MaxRows, schema : SourceSchemas]

StreamArgs ==
    [source : StreamSources,
     dataset_format : {csv, parquet, lance},
     batch_size : 1..MaxBatch,
     include_cols : {NoCols, SomeCols({"id"}), SomeCols({"age"})},
     exclude_cols : {NoCols, SomeCols({"name"})},
     limit : OptInts, row_start : OptInts, row_end : OptInts]


StreamIdle ==
    /\ sArgs = [dataset_format |-> None]
    /\ sPc = "done"
    /\ sLog = <<>> /\ sOut = <<>> /\ sSchemas = <<>> /\ sCols = {} /\ sRest = <<>>
    /\ sCount = [n |-> 0, total |-> 0]
    /\ sErr = ""

StreamInit ==
    /\ sArgs \in StreamArgs
    /\ sPc = "created"
    /\ sLog = <<>> /\ sOut = <<>> /\ sSchemas = <<>> /\ sCols = {} /\ sRest = <<>>
    /\ sCount = [n |-> 0, total |-> 0]
    /\ sErr = ""

\* Lines 138-155, one turn of the loop: the next batch of at most batch_size
\* rows is taken, the progress bar advanced, the batch cast and yielded.
EmitBatch(rows, cols, n, total, log) ==
    LET k == Min(sArgs.batch_size, Len(rows))
    IN /\ sRest' = SubSeq(rows, k + 1, Len(rows))
       /\ sCount' = [n |-> n + k, total |-> total]
       /\ \E outcome \in CastOutcomes(sArgs.source.schema, cols) :
             IF outcome = "raised"
             THEN /\ sLog' = log \o <<"batch", "update", "cast">>
                  /\ sPc' = "raised"
                  /\ sErr' = CastError
                  /\ UNCHANGED <<sOut, sSchemas>>
             ELSE /\ sLog' = log \o <<"batch", "update", "cast", "yield">>
                  /\ sPc' = "yielded"
                  /\ sOut' = Append(sOut, SubSeq(rows, 1, k))
                  /\ sSchemas' = Append(sSchemas, NewSchema(sArgs.source.schema, cols))
                  /\ UNCHANGED sErr

\* The consumer's first next(): the body runs up to its first yield.
StreamFirst ==
    /\ UNCHANGED <<pureVars, buildVars, searchVars, facetVars, visVars>>
    /\ sPc = "created"
    /\ LET plan == StreamPlan(sArgs)
       IN IF ~plan.ok
          THEN /\ sPc' = "raised"
               /\ sErr' = plan.err
               /\ sLog' = plan.log
               /\ UNCHANGED <<sOut, sSchemas, sCols, sRest, sCount>>
          ELSE IF plan.rows = <<>>
          THEN /\ sPc' = "done"
               /\ sLog' = plan.log
               /\ sCols' = plan.cols
               /\ UNCHANGED <<sOut, sSchemas, sRest, sCount, sErr>>
          ELSE /\ sCols' = plan.cols
               /\ EmitBatch(plan.rows, plan.cols, 0, Len(plan.rows), plan.log)
    /\ UNCHANGED sArgs

\* A later next(): the loop continues after the yield.
StreamResume ==
    /\ UNCHANGED <<pureVars, buildVars, searchVars, facetVars, visVars>>
    /\ sPc = "yielded"
    /\ IF sRest = <<>>
       THEN /\ sPc' = "done"
            /\ UNCHANGED <<sLog, sOut, sSchemas, sRest, sCount, sErr>>
       ELSE EmitBatch(sRest, sCols, sCount.n, sCount.total, sLog)
    /\ UNCHANGED <<sArgs, sCols>>

StreamNext == StreamFirst \/ StreamResume

(***************************************************************************)
(* build_lance_index, run by concurrent invocations on one cache store.    *)
(* An invocation is interleaved with the others at its calls into the      *)
(* cache store: list_tables, create_table, create_scalar_index, optimize.  *)
(***************************************************************************)
MaxCalls == 2

Procs == {"p1", "p2"}

\* The fields of ViewArgs that build_lance_index reads and that the class
\* declares (config.py:28-50).  The class declares no field named "limit".
ViewArgs(dataset_path, include_columns, exclude_columns, id_column, row_start, row_end) ==
    [dataset_path |-> dataset_path,
     include_columns |-> include_columns, exclude_columns |-> exclude_columns,
     id_column |-> id_column, row_start |-> row_start, row_end |-> row_end]

\* view_args.<name>: reading an attribute the model class does not declare
\* raises AttributeError.
HasAttr(view_args, name) == name \in DOMAIN view_args

PathXA == <<"x", "/", "a", ".">> \o lance
PathYA == <<"s", "3", ":", "/", "/", "b", "/", "y", "/", "a", ".">> \o lance
PathCsv == <<"a", ".">> \o csv
PathTxt == <<"a", ".", "t", "x", "t">>
PathXGlob == <<"x", "/", "*", ".">> \o csv

\* The datasets on disk: a lance dataset is copied whole, a csv file is
\* streamed.
Dataset(path) ==
    IF path = PathXA THEN [cols |-> {"id", "name"}, nrows |-> 2]
    ELSE IF path = PathYA THEN [cols |-> {"id", "name", "age"}, nrows |-> 1]
    ELSE [cols |-> SourceColumns, nrows |-> 2]

\* The view configurations the invocations are started with; a dataset_path
\* of <<>> stands for None or "".
BuildViewArgs ==
    {ViewArgs(PathXA, NoCols, NoCols, None, NoInt, NoInt),
     ViewArgs(PathXA, SomeCols({"id"}), SomeCols({"name"}), "id", SomeInt(0), SomeInt(1)),
     ViewArgs(PathYA, NoCols, NoCols, "id", NoInt, NoInt),
     ViewArgs(PathCsv, NoCols, NoCols, "id", SomeInt(0), SomeInt(1)),
     ViewArgs(PathTxt, NoCols, NoCols, None, NoInt, NoInt),
     ViewArgs(PathXGlob, NoCols, NoCols, None, NoInt, NoInt),
     ViewArgs(<<>>, NoCols, NoCols, None, NoInt, NoInt)}

NoKey == md5_hexdigest(<<>>)

KeyOf(path) == dataset_hash(get_dataset_name(path).val, infer_format(path).val)

\* The keys the builds of the model can compute.
CacheKeys ==
    {KeyOf(view_args.dataset_path) :
        view_args \in {v \in BuildViewArgs : infer_format(v.dataset_path).ok}}

NoTable == [exists |-> FALSE, src |-> <<>>, cols |-> {}, rows |-> <<>>,
            index |-> {}, optimized |-> FALSE]

\* A variant of create_table that keeps a table that already exists.
CreateTableKeepExisting(tbls, key, src, cols, rows) ==
    IF tbls[key].exists THEN tbls
    ELSE [tbls EXCEPT ![key] = [exists |-> TRUE, src |-> src, cols |-> cols, rows |-> rows,
                                index |-> {}, optimized |-> FALSE]]

\* db.create_table(dataset_hash, data=..., mode="overwrite")
CreateTable(tbls, key, src, cols, rows) ==
    [tbls EXCEPT ![key] = [exists |-> TRUE, src |-> src, cols |-> cols, rows |-> rows,
                           index |-> {}, optimized |-> FALSE]]

\* A variant of the cache test that inverts the reindex flag.
CacheHitWhenReindex(reindex, key, tbls) == reindex /\ tbls[key].exists

\* Line 205: not reindex and dataset_hash in db.list_tables().tables
CacheHit(reindex, key, tbls) == ~reindex /\ tbls[key].exists

BuildOk(key) == [ok |-> TRUE, val |-> key, err |-> ""]
BuildRaise(e) == [ok |-> FALSE, val |-> NoKey, err |-> e]
NoBuildRet == [ok |-> FALSE, val |-> NoKey, err |-> "pending"]

Op(name) == [op |-> name, src |-> <<>>, cols |-> {}, rows |-> <<>>]
CreateOp(src, cols, rows) == [op |-> "create_table", src |-> src, cols |-> cols, rows |-> rows]


BuildInit ==
    /\ tables = [k \in CacheKeys |-> NoTable]
    /\ bpc = [p \in Procs |-> "idle"]
    /\ bargs = [p \in Procs |-> [view_args |-> ViewArgs(<<>>, NoCols, NoCols, None, NoInt, NoInt),
                                 reindex |-> FALSE]]
    /\ bkey = [p \in Procs |-> NoKey]
    /\ bret = [p \in Procs |-> NoBuildRet]
    /\ blog = [p \in Procs |-> <<>>]
    /\ bcalls = [p \in Procs |-> 0]
    /\ bexisted = [p \in Procs |-> FALSE]
    /\ bseen = [p \in Procs |-> FALSE]
    /\ returnedKeys = {}
    /\ failedKeys = {}
    /\ bfailed = [p \in Procs |-> FALSE]
    /\ lastCreate = [k \in CacheKeys |-> <<>>]

Finish(p, r, ops) ==
    /\ bpc' = [bpc EXCEPT ![p] = "done"]
    /\ bret' = [bret EXCEPT ![p] = r]
    /\ blog' = [blog EXCEPT ![p] = ops]
    /\ returnedKeys' = IF r.ok THEN returnedKeys \cup {r.val} ELSE returnedKeys
    /\ failedKeys' = IF ~r.ok /\ bpc[p] = "ingest" THEN failedKeys \cup {bkey[p]} ELSE failedKeys

\* The invocation raises before it has a key.
FailEarly(p, e) ==
    /\ Finish(p, BuildRaise(e), <<>>)
    /\ bkey' = [bkey EXCEPT ![p] = NoKey]
    /\ bexisted' = [bexisted EXCEPT ![p] = FALSE]
    /\ bseen' = [bseen EXCEPT ![p] = FALSE]
    /\ bfailed' = [bfailed EXCEPT ![p] = FALSE]

\* Lines 203-207: connect, list the tables, return the key on a cache hit.
CheckCache(p, reindex, key) ==
    /\ bkey' = [bkey EXCEPT ![p] = key]
    /\ bexisted' = [bexisted EXCEPT ![p] = tables[key].exists]
    /\ bseen' = [bseen EXCEPT ![p] = key \in returnedKeys]
    /\ bfailed' = [bfailed EXCEPT ![p] = key \in failedKeys]
    /\ IF CacheHit(reindex, key, tables)
       THEN Finish(p, BuildOk(key), <<Op("connect"), Op("list_tables")>>)
       ELSE /\ bpc' = [bpc EXCEPT ![p] = "ingest"]
            /\ bret' = [bret EXCEPT ![p] = NoBuildRet]
            /\ blog' = [blog EXCEPT ![p] = <<Op("connect"), Op("list_tables")>>]
            /\ UNCHANGED <<returnedKeys, failedKeys>>

\* Lines 199-201: the name, the format and the key.
ComputeKey(p, reindex, dataset_name, dataset_format) ==
    IF ~dataset_name.ok THEN FailEarly(p, dataset_name.err)
    ELSE IF ~dataset_format.ok THEN FailEarly(p, dataset_format.err)
    ELSE CheckCache(p, reindex, dataset_hash(dataset_name.val, dataset_format.val))

\* Lines 195-207: the invocation starts, computes its key, connects and
\* tests the cache.
BuildStart(p, view_args, reindex) ==
    /\ UNCHANGED <<pureVars, streamVars, searchVars, facetVars, visVars>>
    /\ bpc[p] \in {"idle", "done"}
    /\ bcalls[p] < MaxCalls
    /\ bcalls' = [bcalls EXCEPT ![p] = @ + 1]
    /\ bargs' = [bargs EXCEPT ![p] = [view_args |-> view_args, reindex |-> reindex]]
    /\ UNCHANGED <<tables, lastCreate>>
    /\ IF view_args.dataset_path = <<>>
       THEN FailEarly(p, "ValueError: dataset_path is required to build the Lance index")
       ELSE ComputeKey(p, reindex, get_dataset_name(view_args.dataset_path),
                       infer_format(view_args.dataset_path))

\* create_table has written the table: lines 220 and 225.
Created(p, path, cols, rows) ==
    /\ tables' = CreateTable(tables, bkey[p], path, cols, rows)
    /\ lastCreate' = [lastCreate EXCEPT ![bkey[p]] = path]
    /\ blog' = [blog EXCEPT ![p] = @ \o <<Op("open_source"), CreateOp(path, cols, rows)>>]
    /\ bpc' = [bpc EXCEPT ![p] = "created"]
    /\ UNCHANGED <<bret, returnedKeys, failedKeys>>

\* Lines 210-220: the stream is drained into the table.
CreateFromStream(p, path, plan) ==
    IF ~plan.ok
    THEN /\ Finish(p, BuildRaise(plan.err), Append(blog[p], Op("open_source")))
         /\ UNCHANGED <<tables, lastCreate>>
    ELSE Created(p, path, plan.cols, plan.rows)

\* The arguments of the _stream_dataset call, lines 211-218.
StreamArgsOf(view_args, dataset_format) ==
    [source |-> [exists |-> TRUE, nrows |-> Dataset(view_args.dataset_path).nrows,
                 schema |-> [id |-> Int64, name |-> LargeString]],
     dataset_format |-> dataset_format,
     batch_size |-> 1,
     include_cols |-> view_args.include_columns,
     exclude_cols |-> view_args.exclude_columns,
     limit |-> view_args.limit,
     row_start |-> view_args.row_start,
     row_end |-> view_args.row_end]

CreateFor(p, view_args, dataset_format) ==
    IF dataset_format # lance
    THEN IF ~HasAttr(view_args, "limit")
         THEN /\ Finish(p, BuildRaise("AttributeError: 'ViewArgs' object has no attribute 'limit'"),
                        blog[p])
              /\ UNCHANGED <<tables, lastCreate>>
         ELSE CreateFromStream(p, view_args.dataset_path,
                               StreamPlan(StreamArgsOf(view_args, dataset_format)))
    ELSE Created(p, view_args.dataset_path, Dataset(view_args.dataset_path).cols,
                 SourceRows(Dataset(view_args.dataset_path).nrows))

\* Lines 209-225: the table is created from the stream or from the lance
\* dataset.  The stream's arguments are evaluated first (lines 211-218).
BuildCreate(p) ==
    /\ UNCHANGED <<pureVars, streamVars, searchVars, facetVars, visVars>>
    /\ bpc[p] = "ingest"
    /\ UNCHANGED <<bargs, bkey, bcalls, bexisted, bseen, bfailed>>
    /\ CreateFor(p, bargs[p].view_args, infer_format(bargs[p].view_args.dataset_path).val)

\* Lines 227-228: the scalar index on the identifier column, if configured.
BuildIndex(p) ==
    /\ UNCHANGED <<pureVars, streamVars, searchVars, facetVars, visVars>>
    /\ bpc[p] = "created"
    /\ UNCHANGED <<bargs, bkey, bcalls, bexisted, bseen, bfailed, lastCreate>>
    /\ LET id_column == bargs[p].view_args.id_column
       IN IF id_column = None
          THEN /\ bpc' = [bpc EXCEPT ![p] = "indexed"]
               /\ UNCHANGED <<tables, bret, blog, returnedKeys, failedKeys>>
          ELSE /\ tables' = [tables EXCEPT ![bkey[p]].index = @ \cup {id_column}]
               /\ blog' = [blog EXCEPT ![p] = Append(@, Op("create_scalar_index"))]
               /\ bpc' = [bpc EXCEPT ![p] = "indexed"]
               /\ UNCHANGED <<bret, returnedKeys, failedKeys>>

\* Lines 230-232: compaction, then the key is returned.
BuildOptimize(p) ==
    /\ UNCHANGED <<pureVars, streamVars, searchVars, facetVars, visVars>>
    /\ bpc[p] = "indexed"
    /\ UNCHANGED <<bargs, bkey, bcalls, bexisted, bseen, bfailed, lastCreate>>
    /\ tables' = [tables EXCEPT ![bkey[p]].optimized = TRUE]
    /\ Finish(p, BuildOk(bkey[p]), Append(blog[p], Op("optimize")))

BuildNext ==
    \E p \in Procs :
        \/ \E view_args \in BuildViewArgs, reindex \in BOOLEAN : BuildStart(p, view_args, reindex)
        \/ BuildCreate(p)
        \/ BuildIndex(p)
        \/ BuildOptimize(p)

(***************************************************************************)
(* The query layer: Filter.get_filter, Filter._coerce_value and the search *)
(* handler of app.py, against the registered table "dataset".              *)
(*                                                                         *)
(* A request value is a tagged record: an int, a float, a str, a bool or a  *)
(* list of such.  A str whose l field is not empty is the text str() gives *)
(* for that list.  Floats are the whole numbers n.0.                       *)
(***************************************************************************)
IntV(n) == [t |-> "int", n |-> n, s |-> "", l |-> <<>>]
StrV(x) == [t |-> "str", n |-> 0, s |-> x, l |-> <<>>]
BoolV(b) == [t |-> "bool", n |-> IF b THEN 1 ELSE 0, s |-> "", l |-> <<>>]
ListV(x) == [t |-> "list", n |-> 0, s |-> "", l |-> x]
ReprV(x) == [t |-> "str", n |-> 0, s |-> "", l |-> x]
FloatV(n) == [t |-> "float", n |-> n, s |-> "", l |-> <<>>]

\* The registered table: its schema (ibis column types) and its rows, in
\* the table's own order.
TableSchema == [age |-> "Integer", rank |-> "Integer", name |-> "String",
                active |-> "Boolean", score |-> "Floating", price |-> "Decimal"]
TableColumns == DOMAIN TableSchema

TableRows == <<[id |-> 0, age |-> IntV(3), rank |-> IntV(1), name |-> StrV("b"),
                active |-> BoolV(TRUE), score |-> FloatV(2), price |-> FloatV(1)],
               [id |-> 1, age |-> IntV(1), rank |-> IntV(2), name |-> StrV("a"),
                active |-> BoolV(FALSE), score |-> FloatV(1), price |-> FloatV(1)],
               [id |-> 2, age |-> IntV(2), rank |-> IntV(2), name |-> StrV("a"),
                active |-> BoolV(TRUE), score |-> FloatV(3), price |-> FloatV(2)],
               [id |-> 3, age |-> IntV(1), rank |-> IntV(0), name |-> StrV("c"),
                active |-> BoolV(FALSE), score |-> FloatV(2), price |-> FloatV(0)]>>

\* str(int) and int(str) on the decimal digits.
DigitStr == <<"0", "1", "2", "3", "4", "5", "6", "7", "8", "9">>

PyStr(v) ==
    IF v.t = "int" THEN StrV(DigitStr[v.n + 1])
    ELSE IF v.t = "float" THEN StrV(DigitStr[v.n + 1] \o ".0")
    ELSE IF v.t = "bool" THEN StrV(IF v.n = 1 THEN "True" ELSE "False")
    ELSE IF v.t = "list" THEN ReprV(v.l)
    ELSE v

IsDigitStr(v) == v.l = <<>> /\ \E i \in 1..Len(DigitStr) : DigitStr[i] = v.s

PyInt(v) == IntV((CHOOSE i \in 1..Len(DigitStr) : DigitStr[i] = v.s) - 1)

\* float(str) on the decimal digits, with or without a trailing ".0".
IsFloatStr(v) ==
    v.l = <<>> /\ \E i \in 1..Len(DigitStr) : v.s \in {DigitStr[i], DigitStr[i] \o ".0"}

PyFloat(v) ==
    FloatV((CHOOSE i \in 1..Len(DigitStr) : v.s \in {DigitStr[i], DigitStr[i] \o ".0"}) - 1)

Lower(x) == IF x \in {"True", "TRUE"} THEN "true" ELSE IF x = "False" THEN "false"
            ELSE IF x \in {"YES", "Yes"} THEN "yes" ELSE x

ValOk(v) == [ok |-> TRUE, val |-> v, err |-> ""]
ValRaise(e) == [ok |-> FALSE, val |-> IntV(0), err |-> e]

\* A variant of _coerce_value that compares the text with "true", "1", "yes"
\* as it is written.
coerce_value_case_sensitive(value, type) ==
    IF type = "Boolean"
    THEN ValOk(BoolV(value.l = <<>> /\ value.s \in {"true", "1", "yes"}))
    ELSE IF type = "Integer"
    THEN IF IsDigitStr(value) THEN ValOk(PyInt(value))
         ELSE ValRaise("ValueError: invalid literal for int()")
    ELSE IF type \in {"Floating", "Decimal"}
    THEN IF IsFloatStr(value) THEN ValOk(PyFloat(value))
         ELSE ValRaise("ValueError: could not convert string to float")
    ELSE ValOk(value)

\* Filter._coerce_value(value: str, type)
coerce_value(value, type) ==
    IF type = "Boolean"
    THEN ValOk(BoolV(value.l = <<>> /\ Lower(value.s) \in {"true", "1", "yes"}))
    ELSE IF type = "Integer"
    THEN IF IsDigitStr(value) THEN ValOk(PyInt(value))
         ELSE ValRaise("ValueError: invalid literal for int()")
    ELSE IF type \in {"Floating", "Decimal"}
    THEN IF IsFloatStr(value) THEN ValOk(PyFloat(value))
         ELSE ValRaise("ValueError: could not convert string to float")
    ELSE ValOk(value)

\* The kinds of column types and of values that the engine compares with
\* each other.
TypeClass(type) ==
    IF type \in {"Integer", "Floating", "Decimal"} THEN "num"
    ELSE IF type = "Boolean" THEN "bool" ELSE "str"

ValueClass(v) == IF v.t \in {"int", "float"} THEN "num" ELSE v.t

\* class Operator
ScalarOperators == {">", "<", "==", "!=", ">=", "<="}
ListOperators == {"in", "not in", "between"}
Operator == ScalarOperators \cup ListOperators

\* A translated filter: a predicate over a row.  kind "none" is Python's
\* None, which get_filter returns when no branch of its dispatch returns.
NoPred == [kind |-> "none", col |-> "", op |-> "", rhs |-> IntV(0), rhsCol |-> ""]
PredOk(q) == [ok |-> TRUE, pred |-> q, err |-> ""]
PredRaise(e) == [ok |-> FALSE, pred |-> NoPred, err |-> e]

\* Filter.get_filter(table, coerce_types)
get_filter(f, coerce_types) ==
    IF f.column \notin TableColumns
    THEN PredRaise("IbisTypeError: Column is not found in table")
    ELSE IF f.is_column /\ ~(f.value.t = "str" /\ f.value.l = <<>> /\ f.value.s \in TableColumns)
    THEN PredRaise("IbisTypeError: Column is not found in table")
    ELSE LET coerced == IF coerce_types /\ ~f.is_column
                        THEN coerce_value(PyStr(f.value), TableSchema[f.column])
                        ELSE ValOk(f.value)
             value == coerced.val
         IN IF ~coerced.ok THEN PredRaise(coerced.err)
            ELSE IF f.is_column
            THEN IF f.operator \notin ScalarOperators THEN PredOk(NoPred)
                 ELSE IF TypeClass(TableSchema[f.value.s]) # TypeClass(TableSchema[f.column])
                 THEN PredRaise("IbisTypeError: Arguments are not comparable")
                 ELSE PredOk([kind |-> "cmp", col |-> f.column, op |-> f.operator,
                              rhs |-> IntV(0), rhsCol |-> f.value.s])
            ELSE IF value.t # "list"
            THEN IF f.operator \in ScalarOperators
                 THEN PredOk([kind |-> "cmp", col |-> f.column, op |-> f.operator,
                              rhs |-> value, rhsCol |-> ""])
                 ELSE PredOk(NoPred)
            ELSE IF f.operator = "in"
            THEN PredOk([kind |-> "isin", col |-> f.column, op |-> "in", rhs |-> value,
                         rhsCol |-> ""])
            ELSE IF f.operator = "not in"
            THEN PredOk([kind |-> "notin", col |-> f.column, op |-> "not in", rhs |-> value,
                         rhsCol |-> ""])
            ELSE IF f.operator = "between"
            THEN IF Len(value.l) # 2
                 THEN PredRaise("AssertionError: Value for 'between' operator must be a list of two elements")
                 ELSE PredOk([kind |-> "between", col |-> f.column, op |-> "between",
                              rhs |-> value, rhsCol |-> ""])
            ELSE PredOk(NoPred)

(***************************************************************************)
(* What the engine computes for a translated query                         *)
(***************************************************************************)
StrRank(x) == IF x = "a" THEN 1 ELSE IF x = "b" THEN 2 ELSE IF x = "c" THEN 3 ELSE 0

\* The position of a value in its type's order.
Key(v) == IF v.t = "str" THEN StrRank(v.s) ELSE v.n

Compare(op, a, b) ==
    IF op = ">" THEN Key(a) > Key(b)
    ELSE IF op = "<" THEN Key(a) < Key(b)
    ELSE IF op = "==" THEN Key(a) = Key(b) /\ (ValueClass(a) = "str" => a = b)
    ELSE IF op = "!=" THEN ~(Key(a) = Key(b) /\ (ValueClass(a) = "str" => a = b))
    ELSE IF op = ">=" THEN Key(a) >= Key(b)
    ELSE Key(a) <= Key(b)

\* Whether a predicate's operands have the type of its column.
PredTyped(q) ==
    LET t == TypeClass(TableSchema[q.col])
    IN IF q.kind = "cmp" THEN q.rhsCol # "" \/ ValueClass(q.rhs) = t
       ELSE \A i \in 1..Len(q.rhs.l) : ValueClass(q.rhs.l[i]) = t

Matches(q, row) ==
    IF q.kind = "cmp"
    THEN Compare(q.op, row[q.col], IF q.rhsCol # "" THEN row[q.rhsCol] ELSE q.rhs)
    ELSE IF q.kind = "isin"
    THEN \E i \in 1..Len(q.rhs.l) : Compare("==", row[q.col], q.rhs.l[i])
    ELSE IF q.kind = "notin"
    THEN ~\E i \in 1..Len(q.rhs.l) : Compare("==", row[q.col], q.rhs.l[i])
    ELSE /\ Key(q.rhs.l[1]) <= Key(row[q.col])
         /\ Key(row[q.col]) <= Key(q.rhs.l[2])

\* table.filter(*clauses): the rows satisfying every clause.
FilterRows(rows, preds) ==
    SelectSeq(rows, LAMBDA row : \A i \in 1..Len(preds) : Matches(preds[i], row))

RECURSIVE RowBefore(_, _, _)
\* Whether row a sorts strictly before row b under the sort list.
RowBefore(a, b, sorts) ==
    IF sorts = <<>> THEN FALSE
    ELSE LET x == Key(a[sorts[1].column])
             y == Key(b[sorts[1].column])
         IN IF x = y THEN RowBefore(a, b, Tail(sorts))
            ELSE IF sorts[1].descending THEN x > y ELSE x < y

\* table.order_by(sort_clauses); rows with equal keys keep the table's order.
SortRows(rows, sorts) ==
    LET n == Len(rows)
        before(i, j) == RowBefore(rows[i], rows[j], sorts)
                        \/ (~RowBefore(rows[j], rows[i], sorts) /\ i < j)
        pos(i) == 1 + Cardinality({j \in 1..n : before(j, i)})
    IN [k \in 1..n |-> rows[CHOOSE i \in 1..n : pos(i) = k]]

\* A variant of limit that ignores the offset.
LimitRowsFromStart(rows, n, offset) == SubSeq(rows, 1, Min(n, Len(rows)))

\* table.limit(n, offset=offset)
LimitRows(rows, n, offset) == SubSeq(rows, offset + 1, Min(offset + n, Len(rows)))

\* The raw queries a caller may send, and what the engine answers.
NoRaw == [given |-> FALSE, s |-> ""]
SomeRaw(q) == [given |-> TRUE, s |-> q]

RawAll == "SELECT * FROM dataset"
RawOlder == "SELECT * FROM dataset WHERE age > 1"
RawBad == "SELEC"

QueryOk(rows) == [ok |-> TRUE, rows |-> rows, err |-> ""]
QueryRaise(e) == [ok |-> FALSE, rows |-> <<>>, err |-> e]

\* ibis.sql(raw_query)
Sql(q) ==
    IF q = RawAll THEN QueryOk(TableRows)
    ELSE IF q = RawOlder THEN QueryOk(SelectSeq(TableRows, LAMBDA row : row.age.n > 1))
    ELSE QueryRaise("ParserException")

(***************************************************************************)
(* The search handler                                                      *)
(***************************************************************************)
Response(rows, total) == [status |-> 200, data |-> rows, total_rows |-> total, error |-> ""]
ErrorResponse(e) == [status |-> 500, data |-> <<>>, total_rows |-> 0, error |-> e]

\* A variant of the raw-query test in which filters take precedence over a
\* raw query.
UseStructuredPathWhenFiltered(request) ==
    ~request.raw_query.given \/ request.raw_query.s = "" \/ request.filters # <<>>

\* Line 280: if not request.raw_query
UseStructuredPath(request) == ~request.raw_query.given \/ request.raw_query.s = ""

\* The first exception of the list comprehension of lines 281-284, "" if none.
FirstFilterError(request) ==
    LET bad == {i \in 1..Len(request.filters) :
                   ~get_filter(request.filters[i], request.coerce_types).ok}
    IN IF bad = {} THEN ""
       ELSE get_filter(request.filters[CHOOSE i \in bad : \A j \in bad : i <= j],
                       request.coerce_types).err

\* Lines 277-298: the structured path.  noneClause is what the engine does
\* with a clause that is None: "raise" or "null" (the clause matches no row).
StructuredSearch(request, noneClause) ==
    LET filter_clauses == [i \in 1..Len(request.filters) |->
                              get_filter(request.filters[i], request.coerce_types).pred]
        hasNone == \E i \in 1..Len(filter_clauses) : filter_clauses[i].kind = "none"
        untyped == \E i \in 1..Len(filter_clauses) :
                       filter_clauses[i].kind # "none" /\ ~PredTyped(filter_clauses[i])
        filtered == FilterRows(TableRows, filter_clauses)
        sorted == SortRows(filtered, request.sorts)
    IN IF FirstFilterError(request) # "" THEN ErrorResponse(FirstFilterError(request))
       ELSE IF \E i \in 1..Len(request.sorts) : request.sorts[i].column \notin TableColumns
       THEN ErrorResponse("IbisTypeError: Column is not found in table")
       ELSE IF hasNone /\ noneClause = "raise"
       THEN ErrorResponse("IbisTypeError: predicate is not a boolean expression")
       ELSE IF hasNone
       THEN Response(<<>>, 0)
       ELSE IF untyped
       THEN ErrorResponse("ConversionException")
       ELSE Response(LimitRows(sorted, request.page_size, request.page * request.page_size),
                     Len(filtered))

\* Lines 299-301: the raw path.
RawSearch(request) ==
    LET table == Sql(request.raw_query.s)
    IN IF ~table.ok THEN ErrorResponse(table.err)
       ELSE Response(table.rows, Len(table.rows))

\* search(request, ibis): lines 275-330.
search(request, noneClause) ==
    IF UseStructuredPath(request) THEN StructuredSearch(request, noneClause)
    ELSE RawSearch(request)

MaxPage == 1
MaxPageSize == 2
MaxFilters == 2

Filter(column, operator, value, is_column) ==
    [column |-> column, operator |-> operator, value |-> value, is_column |-> is_column]

RequestFilters ==
    {Filter("age", ">=", IntV(2), FALSE),
     Filter("age", "==", IntV(1), FALSE),
     Filter("name", "!=", StrV("a"), FALSE),
     Filter("age", "in", ListV(<<IntV(1), IntV(3)>>), FALSE),
     Filter("age", "between", ListV(<<IntV(1), IntV(2)>>), FALSE),
     Filter("age", "between", ListV(<<IntV(1), IntV(2), IntV(3)>>), FALSE),
     Filter("age", ">", ListV(<<IntV(1)>>), FALSE),
     Filter("age", "in", IntV(1), FALSE),
     Filter("zz", ">", IntV(1), FALSE),
     Filter("age", "<", IntV(3), FALSE),
     Filter("rank", "<=", IntV(1), FALSE),
     Filter("name", "not in", ListV(<<StrV("a")>>), FALSE),
     Filter("name", "between", ListV(<<StrV("a"), StrV("b"), StrV("c")>>), FALSE),
     Filter("age", ">", StrV("rank"), TRUE)}

Sort(column, descending) == [column |-> column, descending |-> descending]

RequestSorts == {<<>>, <<Sort("age", FALSE)>>, <<Sort("rank", TRUE), Sort("age", FALSE)>>,
                 <<Sort("zz", FALSE)>>}

SeqsUpTo(S, n) == UNION {[1..k -> S] : k \in 0..n}

SearchRequests ==
    [page : 0..MaxPage, page_size : 1..MaxPageSize,
     filters : SeqsUpTo(RequestFilters, MaxFilters),
     sorts : RequestSorts,
     raw_query : {NoRaw, SomeRaw(""), SomeRaw(RawAll), SomeRaw(RawOlder), SomeRaw(RawBad)},
     coerce_types : BOOLEAN]


NoRequest == [page |-> 0, page_size |-> 1, filters |-> <<>>, sorts |-> <<>>,
              raw_query |-> NoRaw, coerce_types |-> FALSE]

SearchIdle ==
    /\ searchRequest = NoRequest
    /\ searchResponse = ErrorResponse("none")
    /\ spc = "answered"

SearchInit ==
    /\ searchRequest \in SearchRequests
    /\ searchResponse = ErrorResponse("none")
    /\ spc = "pending"

\* One search request, from its arrival to its response.
Search ==
    /\ UNCHANGED <<pureVars, streamVars, buildVars, facetVars, visVars>>
    /\ spc = "pending"
    /\ \E noneClause \in {"raise", "null"} :
          searchResponse' = search(searchRequest, noneClause)
    /\ spc' = "answered"
    /\ UNCHANGED searchRequest

(***************************************************************************)
(* get_facets and the process-wide memo _FACETS_CACHE.  The handler is a   *)
(* coroutine whose body has no await: once it runs, it runs to its return  *)
(* or its exception before any other request of the process does.         *)
(***************************************************************************)
MaxFacetCalls == 2

FacetClients == {"c1", "c2"}

NoneV == [t |-> "none", n |-> 0, s |-> "", l |-> <<>>]
NaNV == [t |-> "float", n |-> 0, s |-> "nan", l |-> <<>>]

\* The contents the registered table may have while the process serves.
FacetTables ==
    {TableRows,
     <<[TableRows[1] EXCEPT !.score = NaNV], [TableRows[2] EXCEPT !.name = StrV("b")]>>}

\* The values config.facet_columns may have.
FacetColumnLists ==
    {[given |-> FALSE, cols |-> <<>>], [given |-> TRUE, cols |-> <<>>],
     [given |-> TRUE, cols |-> <<"name">>], [given |-> TRUE, cols |-> <<"score", "name">>],
     [given |-> TRUE, cols |-> <<"zz">>]}

\* Lines 185-187: a float that is not finite becomes None.
FacetValueOf(raw_value) == IF raw_value = NaNV THEN NoneV ELSE raw_value

\* Lines 179-190: the group-by counts of one column.
FacetOf(rows, facet_column) ==
    [column |-> facet_column,
     values |-> {[value |-> FacetValueOf(rows[i][facet_column]),
                  count |-> Cardinality({j \in 1..Len(rows) :
                                            rows[j][facet_column] = rows[i][facet_column]})] :
                    i \in 1..Len(rows)}]

FacetResponse(facets) == [set |-> TRUE, facets |-> facets]
NoFacets == [set |-> FALSE, facets |-> <<>>]

FacetsOk(response) == [ok |-> TRUE, facets |-> response.facets, err |-> ""]
FacetsRaise(e) == [ok |-> FALSE, facets |-> <<>>, err |-> e]
NoFacetsRet == FacetsRaise("pending")

\* The number of the first query of lines 178-181 that raises, 0 if none
\* does: the first column that is not in the table, or the first query when
\* the engine is broken.
FirstFailingQuery(cols, broken) ==
    LET bad == {i \in 1..Len(cols) : broken \/ cols[i] \notin TableColumns}
    IN IF bad = {} THEN 0 ELSE CHOOSE i \in bad : \A j \in bad : i <= j

\* A variant of the memo test that never finds the memo.
MemoHitNever(cache) == FALSE

\* A variant of the memo test that takes an empty facet list for no memo.
MemoHitNonEmpty(cache) == cache.set /\ cache.facets # <<>>

\* Line 167: if _FACETS_CACHE is not None
MemoHit(cache) == cache.set

FacetsInit ==
    /\ facetsCache = NoFacets
    /\ facetTable \in FacetTables
    /\ facetColumns \in FacetColumnLists
    /\ fpc = [c \in FacetClients |-> "idle"]
    /\ fret = [c \in FacetClients |-> NoFacetsRet]
    /\ fqueries = [c \in FacetClients |-> 0]
    /\ fhit = [c \in FacetClients |-> FALSE]
    /\ fconc = [c \in FacetClients |-> FALSE]
    /\ fcalls = [c \in FacetClients |-> 0]
    /\ fwrites = 0
    /\ ffirst = NoFacets

FacetsIdle ==
    /\ facetsCache = NoFacets
    /\ facetTable = TableRows
    /\ facetColumns = [given |-> FALSE, cols |-> <<>>]
    /\ fpc = [c \in FacetClients |-> "done"]
    /\ fret = [c \in FacetClients |-> NoFacetsRet]
    /\ fqueries = [c \in FacetClients |-> 0]
    /\ fhit = [c \in FacetClients |-> FALSE]
    /\ fconc = [c \in FacetClients |-> FALSE]
    /\ fcalls = [c \in FacetClients |-> MaxFacetCalls]
    /\ fwrites = 0
    /\ ffirst = NoFacets

\* A facet request arrives; its handler has not run yet.
FacetsArrive(c) ==
    /\ UNCHANGED <<pureVars, streamVars, buildVars, searchVars, visVars>>
    /\ fpc[c] \in {"idle", "done"} /\ fcalls[c] < MaxFacetCalls
    /\ fpc' = [fpc EXCEPT ![c] = "pending"]
    /\ fcalls' = [fcalls EXCEPT ![c] = @ + 1]
    /\ fret' = [fret EXCEPT ![c] = NoFacetsRet]
    /\ fqueries' = [fqueries EXCEPT ![c] = 0]
    /\ fhit' = [fhit EXCEPT ![c] = FALSE]
    /\ fconc' = [fconc EXCEPT ![c] = FALSE]
    /\ UNCHANGED <<facetsCache, facetTable, facetColumns, fwrites, ffirst>>

\* The handler returns response, having assigned it to the memo or read it
\* from the memo.
FacetsReturn(c, response, queries, assigned) ==
    /\ facetsCache' = response
    /\ fwrites' = IF assigned THEN fwrites + 1 ELSE fwrites
    /\ ffirst' = IF ffirst.set THEN ffirst ELSE response
    /\ fret' = [fret EXCEPT ![c] = FacetsOk(response)]
    /\ fqueries' = [fqueries EXCEPT ![c] = queries]

\* Lines 170-193: the memo is computed and assigned, unless a query raises.
FacetsCompute(c, cols, failing) ==
    IF failing # 0
    THEN /\ fret' = [fret EXCEPT ![c] = FacetsRaise("query failed")]
         /\ fqueries' = [fqueries EXCEPT ![c] = failing]
         /\ UNCHANGED <<facetsCache, fwrites, ffirst>>
    ELSE FacetsReturn(c, FacetResponse([i \in 1..Len(cols) |-> FacetOf(facetTable, cols[i])]),
                      Len(cols), TRUE)

\* get_facets, lines 163-193.
GetFacets(c) ==
    /\ UNCHANGED <<pureVars, streamVars, buildVars, searchVars, visVars>>
    /\ fpc[c] = "pending"
    /\ fpc' = [fpc EXCEPT ![c] = "done"]
    /\ fhit' = [fhit EXCEPT ![c] = MemoHit(facetsCache)]
    /\ fconc' = [fconc EXCEPT ![c] = \E d \in FacetClients \ {c} : fpc[d] = "pending"]
    /\ UNCHANGED <<facetTable, facetColumns, fcalls>>
    /\ IF MemoHit(facetsCache)
       THEN FacetsReturn(c, facetsCache, 0, FALSE)
       ELSE IF ~facetColumns.given \/ facetColumns.cols = <<>>
       THEN FacetsReturn(c, FacetResponse(<<>>), 0, TRUE)
       ELSE \E broken \in BOOLEAN :
               FacetsCompute(c, facetColumns.cols, FirstFailingQuery(facetColumns.cols, broken))

\* The data of the table changes under the serving process.
ChangeTable ==
    /\ UNCHANGED <<pureVars, streamVars, buildVars, searchVars, visVars>>
    /\ facetTable' \in FacetTables \ {facetTable}
    /\ UNCHANGED <<facetsCache, facetColumns, fpc, fret, fqueries, fhit, fconc, fcalls, fwrites, ffirst>>

\* The configured facet columns change under the serving process.
ChangeColumns ==
    /\ UNCHANGED <<pureVars, streamVars, buildVars, searchVars, visVars>>
    /\ facetColumns' \in FacetColumnLists \ {facetColumns}
    /\ UNCHANGED <<facetsCache, facetTable, fpc, fret, fqueries, fhit, fconc, fcalls, fwrites, ffirst>>

FacetsNext ==
    \/ \E c \in FacetClients : FacetsArrive(c)
    \/ \E c \in FacetClients : GetFacets(c)
    \/ ChangeTable
    \/ ChangeColumns

(***************************************************************************)
(* get_row_visualization and the process-wide row_visualizer_plugin.      *)
(***************************************************************************)
MaxVisCalls == 2

GoodPlugin == "plugins.custom.Plugin"
BadPlugin == "plugins.broken.Plugin"

\* The keyword arguments a configuration is built from.
VisSettings ==
    [id_column : {None, "name"}, plugin_path : {None, GoodPlugin, BadPlugin},
     reload_plugin : BOOLEAN]

\* ViewArgs(**settings): the model class keeps the fields it declares and
\* drops the other keyword arguments.
ViewArgsOf(settings) == [id_column |-> settings.id_column]

\* SimpleNamespace(**settings): every keyword argument becomes an attribute.
SimpleNamespace(settings) == settings

\* load_plugin(path): whether it can return an instance, whether it can raise.
\* A module that imports today may fail to import after it has been edited.
LoadOutcomes(path) == IF path = GoodPlugin THEN {"loaded", "raised"} ELSE {"raised"}

VisRequests == [id : {"a", "zz"}, plugin_settings : {"none", "valid", "invalid"}]
NoVisRequest == [id |-> "", plugin_settings |-> "none"]

VisResponse(status, error, html_by) == [status |-> status, error |-> error, html_by |-> html_by]
NoVisResponse == VisResponse(0, "pending", 0)

\* Lines 392-394: the rows of the table whose id column equals the id.
RowsById(id_column, id) == {i \in 1..Len(TableRows) : TableRows[i][id_column] = StrV(id)}

\* Lines 371-398, with plugin the process-wide plugin after the reload step.
Visualize(config, request, plugin) ==
    IF plugin = 0 THEN VisResponse(400, "No visualization plugin configured", 0)
    ELSE IF config.id_column = None THEN VisResponse(400, "ID column not configured", 0)
    ELSE IF request.plugin_settings = "invalid" THEN VisResponse(400, "Invalid plugin settings", 0)
    ELSE IF RowsById(config.id_column, request.id) = {} THEN VisResponse(404, "Row not found", 0)
    ELSE VisResponse(200, "", plugin)

\* A variant of the reload test that never reloads.
ReloadRequestedNever(config) == FALSE

\* Line 359: if config.reload_plugin
ReloadRequested(config) == config.reload_plugin

VisInit ==
    /\ visSettings \in VisSettings
    /\ visConfig \in {ViewArgsOf(visSettings), SimpleNamespace(visSettings)}
    /\ row_visualizer_plugin \in
          IF HasAttr(visConfig, "plugin_path") /\ visConfig.plugin_path = GoodPlugin
          THEN {0, 1} ELSE {0}
    /\ vinstances = row_visualizer_plugin
    /\ visRequest = NoVisRequest
    /\ visResponse = NoVisResponse
    /\ vpc = "idle"
    /\ vloads = <<>>
    /\ vbefore = row_visualizer_plugin
    /\ vcalls = 0

VisIdle ==
    /\ visSettings = [id_column |-> None, plugin_path |-> None, reload_plugin |-> FALSE]
    /\ visConfig = ViewArgsOf(visSettings)
    /\ row_visualizer_plugin = 0
    /\ vinstances = 0
    /\ visRequest = NoVisRequest
    /\ visResponse = NoVisResponse
    /\ vpc = "done"
    /\ vloads = <<>>
    /\ vbefore = 0
    /\ vcalls = MaxVisCalls

\* A row-visualization request arrives; its handler has not run yet.
VisArrive ==
    /\ UNCHANGED <<pureVars, streamVars, buildVars, searchVars, facetVars>>
    /\ vpc \in {"idle", "done"} /\ vcalls < MaxVisCalls
    /\ visRequest' \in VisRequests
    /\ visResponse' = NoVisResponse
    /\ vpc' = "pending"
    /\ vloads' = <<>>
    /\ vbefore' = row_visualizer_plugin
    /\ vcalls' = vcalls + 1
    /\ UNCHANGED <<visSettings, visConfig, row_visualizer_plugin, vinstances>>

\* Lines 364-369: load_plugin(config.plugin_path) returns a new instance or
\* raises.
ReloadPlugin(outcome) ==
    /\ vloads' = <<visConfig.plugin_path>>
    /\ IF outcome = "raised"
       THEN /\ visResponse' = VisResponse(500, "Failed to reload plugin", 0)
            /\ UNCHANGED <<row_visualizer_plugin, vinstances>>
       ELSE /\ vinstances' = vinstances + 1
            /\ row_visualizer_plugin' = vinstances + 1
            /\ visResponse' = Visualize(visConfig, visRequest, vinstances + 1)

\* get_row_visualization, lines 352-398.
GetRowVisualization ==
    /\ UNCHANGED <<pureVars, streamVars, buildVars, searchVars, facetVars>>
    /\ vpc = "pending"
    /\ vpc' = "done"
    /\ UNCHANGED <<visSettings, visConfig, visRequest, vbefore, vcalls>>
    /\ IF ~HasAttr(visConfig, "reload_plugin")
       THEN /\ visResponse' = VisResponse(500, "AttributeError", 0)
            /\ UNCHANGED <<row_visualizer_plugin, vinstances, vloads>>
       ELSE IF ~ReloadRequested(visConfig)
       THEN /\ visResponse' = Visualize(visConfig, visRequest, row_visualizer_plugin)
            /\ UNCHANGED <<row_visualizer_plugin, vinstances, vloads>>
       ELSE IF visConfig.plugin_path = None
       THEN /\ visResponse' = VisResponse(400, "No visualization plugin configured", 0)
            /\ UNCHANGED <<row_visualizer_plugin, vinstances, vloads>>
       ELSE \E outcome \in LoadOutcomes(visConfig.plugin_path) : ReloadPlugin(outcome)

VisNext == VisArrive \/ GetRowVisualization

(***************************************************************************)
(* Calls of the pure functions                                             *)
(***************************************************************************)
\* The filters get_filter is called on: every operator on every kind of
\* column with every kind of value, and references to other columns.
FilterColumns == {"age", "name", "active", "score", "price", "zz"}

FilterValues ==
    {IntV(1), FloatV(2), BoolV(TRUE), StrV("1"), StrV("a"), StrV("YES"), StrV("no"),
     ListV(<<>>), ListV(<<IntV(1)>>), ListV(<<IntV(1), IntV(2)>>),
     ListV(<<IntV(1), IntV(2), IntV(3)>>), ListV(<<StrV("a"), StrV("b")>>)}

ColumnRefs == {StrV("rank"), StrV("name"), StrV("zz")}

FilterArgs ==
    {Filter(c, o, v, FALSE) : c \in FilterColumns, o \in Operator, v \in FilterValues}
    \cup {Filter(c, o, v, TRUE) : c \in FilterColumns, o \in Operator, v \in ColumnRefs}

NoRet == [ok |-> FALSE, val |-> <<>>, err |-> "pending", arg |-> <<>>]


PureCalls ==
    {[fn |-> "get_dataset_name", loc |-> l] : l \in LocParts}
    \cup {[fn |-> "infer_format", loc |-> l] : l \in LocParts}
    \cup {[fn |-> "_get_columns", all |-> a, include |-> i, exclude |-> e] :
             a \in SUBSET Columns, i \in OptCols, e \in OptCols}
    \cup {[fn |-> "dataset_hash", a |-> a, b |-> b] : a \in KeyPairs, b \in KeyPairs}
    \cup {[fn |-> "get_filter", f |-> f, coerce_types |-> c] : f \in FilterArgs, c \in BOOLEAN}

PureIdle ==
    /\ call = [fn |-> "none"]
    /\ ret = NoRet
    /\ callPc = "returned"

PureInit ==
    /\ call \in PureCalls
    /\ ret = NoRet
    /\ callPc = "ready"

NameCall ==
    /\ UNCHANGED <<streamVars, buildVars, searchVars, facetVars, visVars>>
    /\ callPc = "ready" /\ call.fn = "get_dataset_name"
    /\ ret' = get_dataset_name(LocText(call.loc))
    /\ callPc' = "returned"
    /\ UNCHANGED call

FormatCall ==
    /\ UNCHANGED <<streamVars, buildVars, searchVars, facetVars, visVars>>
    /\ callPc = "ready" /\ call.fn = "infer_format"
    /\ ret' = infer_format(LocText(call.loc))
    /\ callPc' = "returned"
    /\ UNCHANGED call

ColumnsCall ==
    /\ UNCHANGED <<streamVars, buildVars, searchVars, facetVars, visVars>>
    /\ callPc = "ready" /\ call.fn = "_get_columns"
    /\ ret' = get_columns(call.all, call.include, call.exclude)
    /\ callPc' = "returned"
    /\ UNCHANGED call

KeyCall ==
    /\ UNCHANGED <<streamVars, buildVars, searchVars, facetVars, visVars>>
    /\ callPc = "ready" /\ call.fn = "dataset_hash"
    /\ ret' = [ok |-> TRUE,
               val |-> <<dataset_hash(call.a[1], call.a[2]), dataset_hash(call.b[1], call.b[2])>>,
               err |-> "", arg |-> <<>>]
    /\ callPc' = "returned"
    /\ UNCHANGED call

FilterCall ==
    /\ UNCHANGED <<streamVars, buildVars, searchVars, facetVars, visVars>>
    /\ callPc = "ready" /\ call.fn = "get_filter"
    /\ ret' = [ok |-> get_filter(call.f, call.coerce_types).ok,
               val |-> get_filter(call.f, call.coerce_types).pred,
               err |-> get_filter(call.f, call.coerce_types).err, arg |-> <<>>]
    /\ callPc' = "returned"
    /\ UNCHANGED call

PureNext == NameCall \/ FormatCall \/ ColumnsCall \/ KeyCall \/ FilterCall

(***************************************************************************)
(* Specifications: one per subsystem, the others at rest.                  *)
(***************************************************************************)
BuildIdle == BuildInit

\* The pure functions, each applied once to an input drawn by the initial
\* state.
InitPure == PureInit /\ StreamIdle /\ BuildIdle /\ SearchIdle /\ FacetsIdle /\ VisIdle

SpecPure == InitPure /\ [][PureNext]_vars

\* One _stream_dataset generator, drained by its consumer.
InitStream == PureIdle /\ StreamInit /\ BuildIdle /\ SearchIdle /\ FacetsIdle /\ VisIdle

SpecStream == InitStream /\ [][StreamNext]_vars

\* Concurrent build_lance_index invocations on one cache store.
Init == PureIdle /\ StreamIdle /\ BuildInit /\ SearchIdle /\ FacetsIdle /\ VisIdle

Next == BuildNext

Spec == Init /\ [][Next]_vars

\* One search request against the registered table.
InitSearch == PureIdle /\ StreamIdle /\ BuildIdle /\ SearchInit /\ FacetsIdle /\ VisIdle

SpecSearch == InitSearch /\ [][Search]_vars

\* Facet requests of several clients of one serving process.
InitFacets ==
    PureIdle /\ StreamIdle /\ BuildIdle /\ SearchIdle /\ FacetsInit /\ VisIdle

SpecFacets == InitFacets /\ [][FacetsNext]_vars

\* Row-visualization requests of one serving process.
InitVis == PureIdle /\ StreamIdle /\ BuildIdle /\ SearchIdle /\ FacetsIdle /\ VisInit

SpecVis == InitVis /\ [][VisNext]_vars

(***************************************************************************)
(* Properties of the pure functions                                        *)
(***************************************************************************)
Returned(fn) == callPc = "returned" /\ call.fn = fn

\* The final path segment of an assembled location, and whether it is a
\* proper file name (something before the extension).
LocSegment(l) == l.stem \o l.wild \o l.ext
LocHasSegment(l) == l.stem \o l.wild # <<>>

\* The format the documented extension table gives.
FormatOfExt(ext) ==
    IF ext \in {<<".">> \o csv, <<".">> \o tsv} THEN csv
    ELSE IF ext \in {<<".">> \o json, <<".">> \o jsonl} THEN jsonl
    ELSE IF ext = <<".">> \o parquet THEN parquet
    ELSE IF ext = <<".">> \o lance THEN lance
    ELSE <<>>

FormatAsDocumented(l, r) ==
    IF FormatOfExt(l.ext) # <<>>
    THEN r.ok /\ r.val = FormatOfExt(l.ext)
    ELSE ~r.ok /\ r.err = "ValueError: Unsupported dataset format for path"
               /\ r.arg = LocText(l)

\* C6: for every location, with or without a scheme and with or without a
\* wildcard in the final segment, the extension of the final path segment
\* decides the format (csv/tsv, json/jsonl, parquet, lance) and every other
\* extension or none raises the unsupported-format error naming the path.
C6_FormatByExtension ==
    (Returned("infer_format") /\ LocHasSegment(call.loc))
        => FormatAsDocumented(call.loc, ret)

\* urlparse cuts a URL's path at the first "?": only there does the
\* extension table fail.
C6_FormatOutsideUrlQuery ==
    (Returned("infer_format") /\ LocHasSegment(call.loc)
        /\ ~(call.loc.scheme # <<>> /\ call.loc.wild = <<"?">>))
        => FormatAsDocumented(call.loc, ret)

\* The name the documented rule gives: the parent segment's stem when the
\* final segment holds a wildcard, else the final segment without its
\* extension.
NameAsDocumented(l) ==
    IF l.wild # <<>> THEN l.dir.parent
    ELSE IF l.ext \in {<<>>, <<".">>} THEN LocSegment(l)
    ELSE l.stem

\* C7: after stripping any URL scheme, a final segment holding one of * ? [ ]
\* makes the parent segment the source of the name; the name is the segment's
\* stem when it has an extension, else the segment itself.
C7_NameFromSegment ==
    (Returned("get_dataset_name") /\ LocHasSegment(call.loc))
        => (ret.ok /\ ret.val = NameAsDocumented(call.loc))

C7_NameOutsideUrlQuery ==
    (Returned("get_dataset_name") /\ LocHasSegment(call.loc)
        /\ ~(call.loc.scheme # <<>> /\ call.loc.wild = <<"?">>))
        => (ret.ok /\ ret.val = NameAsDocumented(call.loc))

\* C4: the key is the digest of name + "_" + format value: the same pair
\* gives the same key, and two different (name, format) pairs give different
\* digested strings, hence different keys.
C4_CacheKeySeparation ==
    Returned("dataset_hash") =>
        /\ ret.val[1] = md5_hexdigest(call.a[1] \o <<"_">> \o call.a[2])
        /\ (call.a = call.b => ret.val[1] = ret.val[2])
        /\ (call.a # call.b => /\ ret.val[1].md5 # ret.val[2].md5
                               /\ ret.val[1] # ret.val[2])

\* Two pairs that differ in name and in format, one name ending in the
\* other's "_format", have been given different keys.
C4_Witness ==
    /\ Returned("dataset_hash")
    /\ call.a = <<<<"a">> \o <<"_">> \o csv, lance>>
    /\ call.b = <<<<"a">>, csv>>
    /\ ret.val[1] # ret.val[2]

\* C5: _get_columns against its reference: offending include names (not in
\* allColumns) raise the include error listing all of them, before exclude
\* is looked at; the working set is include, or allColumns without include;
\* offending exclude names (not in the working set) raise the exclude error
\* listing all of them; otherwise the result is the working set minus
\* exclude, and all columns when neither list is given.
C5_ColumnSelector ==
    Returned("_get_columns") =>
        LET inc == call.include
            exc == call.exclude
            badInc == {c \in inc.cols : c \notin call.all}
            work == IF inc.given THEN inc.cols ELSE call.all
            badExc == {c \in exc.cols : c \notin work}
        IN /\ (inc.given /\ badInc # {}) =>
                  /\ ~ret.ok
                  /\ ret.err = "ValueError: Included columns not found in dataset"
                  /\ ret.names = badInc
           /\ (~(inc.given /\ badInc # {}) /\ exc.given /\ badExc # {}) =>
                  /\ ~ret.ok
                  /\ ret.err = "ValueError: Excluded columns not found in dataset"
                  /\ ret.names = badExc
           /\ (~(inc.given /\ badInc # {}) /\ ~(exc.given /\ badExc # {})) =>
                  /\ ret.ok
                  /\ \A c \in Columns :
                        c \in ret.val <=> (c \in work /\ ~(exc.given /\ c \in exc.cols))
           /\ (~inc.given /\ ~exc.given) => (ret.ok /\ ret.val = call.all)

\* An exclude list naming a column the dataset has but the include list
\* left out has been rejected with the exclude error.
C5_Witness ==
    /\ Returned("_get_columns")
    /\ call.all = Columns
    /\ call.include = SomeCols({"id", "name"})
    /\ call.exclude = SomeCols({"age"})
    /\ ~ret.ok /\ ret.names = {"age"}

(***************************************************************************)
(* Properties of build_lance_index                                         *)
(***************************************************************************)
IngestOps == {"open_source", "create_table", "create_scalar_index", "optimize"}

\* The invocation has neither read a source nor written to the cache store.
NoIngest(log) == \A i \in 1..Len(log) : log[i].op \notin IngestOps

\* C1: with reindex false and a table named by the key already in the store
\* (in particular after an earlier build returned that key), the build
\* returns the key at once: no source opened, no table created, indexed or
\* compacted.
C1_ShortCircuit ==
    \A p \in Procs :
        (~bargs[p].reindex /\ (bexisted[p] \/ bseen[p])) =>
            /\ bpc[p] = "done"
            /\ bret[p] = BuildOk(bkey[p])
            /\ bkey[p] = KeyOf(bargs[p].view_args.dataset_path)
            /\ NoIngest(blog[p])

\* A process's second build, started after a build had returned the same
\* key, has returned it again without ingesting.
C1_Witness ==
    \E p \in Procs :
        /\ bcalls[p] = 2 /\ bpc[p] = "done"
        /\ ~bargs[p].reindex /\ bseen[p]
        /\ bret[p] = BuildOk(bkey[p])
        /\ tables[bkey[p]].optimized

\* The table a rebuild is documented to write: the lance dataset as it is,
\* or the stream with the configured projection and row window.
ExpectedCreate(view_args) ==
    LET path == view_args.dataset_path
        all == SourceRows(Dataset(path).nrows)
    IN IF infer_format(path).val = lance
       THEN CreateOp(path, Dataset(path).cols, all)
       ELSE CreateOp(path,
                     get_columns(Dataset(path).cols, view_args.include_columns,
                                 view_args.exclude_columns).val,
                     IF view_args.row_start.given /\ view_args.row_end.given
                     THEN SelectSeq(all, LAMBDA r : view_args.row_start.v <= r
                                                    /\ r < view_args.row_end.v)
                     ELSE all)

ExpectedLog(view_args) ==
    <<Op("connect"), Op("list_tables"), Op("open_source"), ExpectedCreate(view_args)>>
    \o (IF view_args.id_column # None THEN <<Op("create_scalar_index")>> ELSE <<>>)
    \o <<Op("optimize")>>

Rebuilt(p) == bpc[p] = "done" /\ bkey[p] # NoKey /\ (bargs[p].reindex \/ ~bexisted[p])

\* C2: when reindex is true or no table has the key, the build performs
\* exactly one create_table (overwrite) under the key, with the drained
\* stream for csv/jsonl/parquet and the unprojected copy for lance, then the
\* optional scalar index, then the compaction, and only then returns the key.
C2_RebuildPath ==
    \A p \in Procs :
        Rebuilt(p) => (bret[p] = BuildOk(bkey[p]) /\ blog[p] = ExpectedLog(bargs[p].view_args))

\* The same for lance sources alone.
RebuildPathLance ==
    \A p \in Procs :
        (Rebuilt(p) /\ infer_format(bargs[p].view_args.dataset_path).val = lance)
            => (bret[p] = BuildOk(bkey[p]) /\ blog[p] = ExpectedLog(bargs[p].view_args))

\* C3: the existence test and create_table are not serialised, so two
\* invocations for one dataset may both create the table; whatever the
\* interleaving, the table under a key is the one written by the
\* create_table (overwrite) that completed last.
C3_LastWriterWins ==
    \A k \in CacheKeys :
        lastCreate[k] # <<>> =>
            /\ tables[k].exists
            /\ tables[k].src = lastCreate[k]
            /\ tables[k].cols = Dataset(lastCreate[k]).cols
            /\ tables[k].rows = SourceRows(Dataset(lastCreate[k]).nrows)

HasCreated(p) == \E i \in 1..Len(blog[p]) : blog[p][i].op = "create_table"

\* Both invocations found no table, both created it, from different
\* sources, and the store holds the later one.
C3_Witness ==
    /\ \A p \in Procs : ~bargs[p].reindex /\ ~bexisted[p] /\ HasCreated(p)
    /\ bcalls = [p \in Procs |-> 1]
    /\ bkey["p1"] = bkey["p2"]
    /\ bargs["p1"].view_args.dataset_path = PathXA
    /\ bargs["p2"].view_args.dataset_path = PathYA
    /\ tables[bkey["p1"]].src = PathXA

\* C9: the rows a csv/jsonl/parquet build materialises are the rows of the
\* window taken from the view configuration: [row_start, row_end), the first
\* limit rows, or all rows.
C9_WindowFromViewArgs ==
    \A p \in Procs :
        (Rebuilt(p) /\ infer_format(bargs[p].view_args.dataset_path).val \in ScanFormats)
            => \E i \in 1..Len(blog[p]) :
                  /\ blog[p][i].op = "create_table"
                  /\ blog[p][i].rows = ExpectedCreate(bargs[p].view_args).rows

\* The invocation raised while it was creating the table.
IngestFailed(p) == bpc[p] = "done" /\ ~bret[p].ok /\ bkey[p] # NoKey

\* The invocation returned from the cache test, without creating a table.
ShortCircuited(p) ==
    bpc[p] = "done" /\ bret[p].ok /\ blog[p] = <<Op("connect"), Op("list_tables")>>

HasOp(p, name) == \E i \in 1..Len(blog[p]) : blog[p][i].op = name

\* A build that raised returns no key and runs no index or compaction step.
FailedBuildAborts ==
    \A p \in Procs :
        IngestFailed(p) =>
            /\ bret[p].val = NoKey
            /\ ~HasOp(p, "create_scalar_index") /\ ~HasOp(p, "optimize")

\* A build after a failed one for its key, reindex false, short-circuits
\* only on a table whose build had completed.
NoShortCircuitOnFailed ==
    \A p \in Procs :
        (ShortCircuited(p) /\ bfailed[p] /\ ~bargs[p].reindex) => bseen[p]

\* A retry with reindex true after a failed build for its key goes past the
\* cache test and overwrites the table.
RetryOverwrites ==
    \A p \in Procs :
        (bpc[p] = "done" /\ bfailed[p] /\ bargs[p].reindex) =>
            ~ShortCircuited(p) /\ HasOp(p, "create_table")

\* C19: a build that fails while it drains the stream aborts with an error,
\* returns no key and runs no index or compaction step; a later build for
\* the same key with reindex false does not short-circuit on what the failed
\* run left; a retry with reindex true skips the existence test and
\* overwrites the table.
C19_NoPartialCache == FailedBuildAborts /\ NoShortCircuitOnFailed /\ RetryOverwrites

\* What does hold: the first two parts, and a retry with reindex true that
\* skips the existence test, and overwrites the table when its source is a
\* lance dataset.
FailedBuildRetry ==
    /\ FailedBuildAborts /\ NoShortCircuitOnFailed
    /\ \A p \in Procs :
          (bpc[p] = "done" /\ bfailed[p] /\ bargs[p].reindex) =>
              /\ ~ShortCircuited(p)
              /\ infer_format(bargs[p].view_args.dataset_path).val = lance =>
                    HasOp(p, "create_table")
              /\ infer_format(bargs[p].view_args.dataset_path).val # lance =>
                    /\ IngestFailed(p) /\ ~HasOp(p, "create_table")
                    /\ ~tables[bkey[p]].exists

\* A retry with reindex true of a csv build that had failed: it failed again.
RetryFailedReached ==
    \E p \in Procs :
        /\ bpc[p] = "done" /\ bfailed[p] /\ bargs[p].reindex /\ IngestFailed(p)
        /\ bargs[p].view_args.dataset_path = PathCsv

\* The invocation has computed its key.
KeyComputed(p) == bkey[p] # NoKey

\* The final segment of a location: what follows its last "/".
FinalSegment(location) == SubSeq(location, RFind(location, "/") + 1, Len(location))

HasWildcard(segment) == \E ch \in WildcardChars : Contains(segment, ch)

\* The locations of two invocations have the same final segment, hence the
\* same final-segment stem and extension, whatever their directories and
\* schemes and whatever else their view arguments hold.
SameFinalSegment(p, q) ==
    FinalSegment(bargs[p].view_args.dataset_path) = FinalSegment(bargs[q].view_args.dataset_path)

\* The invocation returns from the cache test in this step.
ShortCircuitStep(p) ==
    /\ bpc[p] \in {"idle", "done"} /\ bpc'[p] = "done"
    /\ bcalls'[p] = bcalls[p] + 1 /\ bret'[p].ok

\* With reindex false and the table of its key in the store, a build returns
\* the key and leaves every table as it was.
HitLeavesTables ==
    /\ [](\A p \in Procs :
             (KeyComputed(p) /\ ~bargs[p].reindex /\ bexisted[p]) => ShortCircuited(p))
    /\ [][\A p \in Procs :
             ShortCircuitStep(p) =>
                 /\ tables' = tables
                 /\ ~bargs'[p].reindex /\ tables[bkey'[p]].exists
                 /\ bret'[p] = BuildOk(KeyOf(bargs'[p].view_args.dataset_path))]_vars

\* The locations that differ from a location in directory or scheme only:
\* its final segment alone, under another directory, and under a scheme,
\* a bucket and another directory.
Relocated(location) ==
    {FinalSegment(location),
     <<"z", "/">> \o FinalSegment(location),
     <<"s", "3", ":", "/", "/", "b", "/", "z", "/">> \o FinalSegment(location)}

\* The key of the invocation is the key of every relocation of its location.
KeyOfRelocated(p) ==
    \A location \in Relocated(bargs[p].view_args.dataset_path) : KeyOf(location) = bkey[p]

RECURSIVE Flatten(_)
Flatten(batches) == IF batches = <<>> THEN <<>> ELSE Head(batches) \o Flatten(Tail(batches))

SourceReads == {"scan", "collect_schema", "count", "batch"}

\* C8: a stream given both a limit and a row range fails with the
\* conflicting-window error before any I/O: before the source is opened or
\* its schema read and before column selection is validated.
C8_ConflictRejectedFirst ==
    (sPc # "created" /\ sArgs.dataset_format \in ScanFormats
        /\ WindowConflict(sArgs.limit, sArgs.row_start, sArgs.row_end))
        => /\ sPc = "raised" /\ sErr = ConflictError
           /\ \A i \in 1..Len(sLog) : sLog[i] \notin SourceReads \cup {"_get_columns"}

\* What does hold: the conflict is raised before any row is counted or
\* yielded, once the schema has been read and the columns validated.
ConflictRejectedBeforeRows ==
    (sPc # "created" /\ sArgs.dataset_format \in ScanFormats /\ sArgs.source.exists
        /\ get_columns(SourceColumns, sArgs.include_cols, sArgs.exclude_cols).ok
        /\ WindowConflict(sArgs.limit, sArgs.row_start, sArgs.row_end))
        => /\ sPc = "raised" /\ sErr = ConflictError /\ sOut = <<>>
           /\ \A i \in 1..Len(sLog) : sLog[i] \notin {"count", "batch"}

\* The rows a drained stream has yielded are those of its window.
StreamWindow ==
    sPc = "done" =>
        LET all == SourceRows(sArgs.source.nrows)
            got == Flatten(sOut)
        IN /\ (sArgs.row_start.given /\ sArgs.row_end.given) =>
                  got = SelectSeq(all, LAMBDA r : sArgs.row_start.v <= r /\ r < sArgs.row_end.v)
           /\ sArgs.limit.given => got = SubSeq(all, 1, Min(sArgs.limit.v, Len(all)))
           /\ (~sArgs.limit.given /\ ~sArgs.row_start.given /\ ~sArgs.row_end.given) => got = all

\* The rows of the window of a stream whose plan succeeds.
WindowRows == StreamPlan(sArgs).rows

\* Batch i has at most batch_size rows, and its schema has every selected
\* column, large list, binary and string types narrowed, other types as in
\* the source.
BatchNormalized(i) ==
    /\ 1 <= Len(sOut[i]) /\ Len(sOut[i]) <= sArgs.batch_size
    /\ DOMAIN sSchemas[i] = sCols
    /\ \A c \in sCols :
          LET src == sArgs.source.schema[c]
              out == sSchemas[i][c]
          IN /\ out.kind = src.kind /\ out.value = src.value
             /\ out.kind \in {"list", "binary", "string"} => ~out.large
             /\ out.kind \notin {"list", "binary", "string"} => out = src

\* The batches are finitely many and normalized, and they are the window.
BatchesOfWindow ==
    /\ Len(sOut) = Len(sSchemas) /\ Len(sOut) <= Len(SourceRows(sArgs.source.nrows))
    /\ \A i \in 1..Len(sOut) : BatchNormalized(i)
    /\ sPc \in {"yielded", "done"} => Flatten(sOut) \o sRest = WindowRows

\* The progress bar is advanced for a batch after the cast and the yield of
\* that batch.
UpdateAfterYield ==
    \A i \in 1..Len(sLog) :
        sLog[i] = "update" => (i > 2 /\ sLog[i - 2] = "cast" /\ sLog[i - 1] = "yield")

\* C20: for every batch size and source the stream yields finitely many
\* batches of at most batch_size rows, with large list, binary and string
\* columns narrowed and the other columns unchanged; the progress count
\* never decreases, is advanced by a batch's row count only after that batch
\* has been cast and yielded, and equals the row count of the window when
\* the stream ends.
C20_BatchLoop ==
    /\ [](/\ BatchesOfWindow
          /\ UpdateAfterYield
          /\ sCount.n = Len(Flatten(sOut))
          /\ sPc = "done" => sCount.n = Len(WindowRows))
    /\ [][sCount'.n >= sCount.n]_vars

\* What does hold: the same, with the progress bar advanced before the cast
\* and the yield of the batch it counts, so that it also counts the batch
\* whose cast raised.
BatchLoopUpdateFirst ==
    /\ [](/\ BatchesOfWindow
          /\ \A i \in 1..Len(sLog) :
                sLog[i] = "update" =>
                    /\ sLog[i - 1] = "batch"
                    /\ i < Len(sLog) /\ sLog[i + 1] = "cast"
          /\ sCount.n = Len(Flatten(sOut))
                          + (IF sErr = CastError
                             THEN Len(WindowRows) - Len(Flatten(sOut)) - Len(sRest) ELSE 0)
          /\ sPc = "done" => (sCount.n = Len(WindowRows) /\ sCount.total = sCount.n))
    /\ [][sCount'.n >= sCount.n]_vars

\* The cast of the second batch raised: one batch was yielded, two counted.
CastRaisedReached ==
    /\ sPc = "raised" /\ sErr = CastError
    /\ Len(sOut) = 1 /\ sCount.n = 2 /\ Len(Flatten(sOut)) = 1

(***************************************************************************)
(* Properties of the search handler                                        *)
(***************************************************************************)
\* What executing the raw string alone gives.
RawOutcome(q) ==
    IF Sql(q).ok THEN Response(Sql(q).rows, Len(Sql(q).rows)) ELSE ErrorResponse(Sql(q).err)

\* C10, as stated: whenever raw_query is present, the response is that of
\* the raw string alone, whatever the filters, sorts, page and page size.
C10_RawReplaces ==
    (spc = "answered" /\ searchRequest.raw_query.given)
        => searchResponse = RawOutcome(searchRequest.raw_query.s)

\* C10, amended: whenever raw_query is present and not the empty string, the
\* response is that of the raw string alone: no filter is translated, no
\* sort, limit or offset applied, total_rows is the raw query's row count.
C10_RawReplacesNonEmpty ==
    (spc = "answered" /\ searchRequest.raw_query.given /\ searchRequest.raw_query.s # "")
        => searchResponse = RawOutcome(searchRequest.raw_query.s)

\* A raw query answered in full although the request also carries a
\* malformed between filter, a sort on a missing column and page 1 of size 1.
C10_Witness ==
    /\ spc = "answered"
    /\ searchRequest.raw_query = SomeRaw(RawOlder)
    /\ searchRequest.filters = <<Filter("age", "between", ListV(<<IntV(1), IntV(2), IntV(3)>>), FALSE)>>
    /\ searchRequest.sorts = <<Sort("zz", FALSE)>>
    /\ searchRequest.page = 1 /\ searchRequest.page_size = 1
    /\ searchResponse.status = 200
    /\ searchResponse.total_rows = 2
    /\ Len(searchResponse.data) = 2

\* The request took the structured path and was answered with rows.
StructuredAnswer ==
    /\ spc = "answered"
    /\ ~searchRequest.raw_query.given \/ searchRequest.raw_query.s = ""
    /\ searchResponse.status = 200

\* The predicates of the request's filters, and whether each of them is one.
RequestPreds ==
    [i \in 1..Len(searchRequest.filters) |->
        get_filter(searchRequest.filters[i], searchRequest.coerce_types).pred]

AllTranslated == \A i \in 1..Len(RequestPreds) : RequestPreds[i].kind # "none"

\* C11: on the structured path the returned rows are positions
\* [page*page_size, (page+1)*page_size) of the filtered-then-sorted rows (fewer
\* where the sequence ends) and total_rows is the number of rows matching the
\* filters, whatever page and page_size are.
C11_Pagination ==
    (StructuredAnswer /\ AllTranslated) =>
        LET matching == FilterRows(TableRows, RequestPreds)
            ordered == SortRows(matching, searchRequest.sorts)
            first == searchRequest.page * searchRequest.page_size
            data == searchResponse.data
        IN /\ searchResponse.total_rows = Len(matching)
           /\ Len(data) = IF Len(ordered) <= first THEN 0
                          ELSE Min(searchRequest.page_size, Len(ordered) - first)
           /\ \A i \in 1..Len(data) : data[i] = ordered[first + i]

\* Page 1 of size 1 of the two rows with age >= 2 in ascending age: the row
\* with age 3, and a total of 2.
C11_Witness ==
    /\ StructuredAnswer
    /\ searchRequest.page = 1 /\ searchRequest.page_size = 1
    /\ searchRequest.filters = <<Filter("age", ">=", IntV(2), FALSE)>>
    /\ searchRequest.sorts = <<Sort("age", FALSE)>>
    /\ searchResponse.total_rows = 2
    /\ searchResponse.data = <<TableRows[1]>>

(***************************************************************************)
(* Properties of Filter.get_filter                                         *)
(***************************************************************************)
\* The texts that stand for true on a boolean column.
TrueTexts == {"true", "True", "TRUE", "1", "yes", "Yes", "YES"}

IntTexts == {DigitStr[i] : i \in 1..Len(DigitStr)}
FloatTexts == IntTexts \cup {DigitStr[i] \o ".0" : i \in 1..Len(DigitStr)}

\* The number a text stands for.
NumberOf(text) ==
    (CHOOSE i \in 1..Len(DigitStr) : text \in {DigitStr[i], DigitStr[i] \o ".0"}) - 1

\* C15: a column reference is the operand as it is, whatever coerce_types
\* is; a literal is the operand unchanged when coerce_types is false; with
\* coerce_types true the operand is the literal's text coerced by the type of
\* the filter's column: on boolean columns "true", "1", "yes" in any case
\* give true and every other text false, integer columns parse an integer,
\* floating and decimal columns parse a float, other columns keep the text.
C15_Coercion ==
    (Returned("get_filter") /\ call.f.column \in TableColumns) =>
        LET f == call.f
            type == TableSchema[f.column]
            text == PyStr(f.value)
            plain == text.l = <<>>
            operand == ret.val.rhs
            visible == ret.ok /\ ret.val.kind # "none"
        IN /\ f.is_column =>
                /\ ret.ok <=> get_filter(f, ~call.coerce_types).ok
                /\ ret.val = get_filter(f, ~call.coerce_types).pred
                /\ visible => (ret.val.rhsCol = f.value.s /\ operand = IntV(0))
           /\ (~f.is_column /\ ~call.coerce_types) =>
                (visible => (operand = f.value /\ ret.val.rhsCol = ""))
           /\ (~f.is_column /\ call.coerce_types /\ f.operator \in ScalarOperators) =>
                IF type = "Boolean"
                THEN visible /\ operand = BoolV(plain /\ text.s \in TrueTexts)
                ELSE IF type = "Integer"
                THEN IF plain /\ text.s \in IntTexts
                     THEN visible /\ operand = IntV(NumberOf(text.s))
                     ELSE ~ret.ok
                ELSE IF type \in {"Floating", "Decimal"}
                THEN IF plain /\ text.s \in FloatTexts
                     THEN visible /\ operand = FloatV(NumberOf(text.s))
                     ELSE ~ret.ok
                ELSE visible /\ operand = text

\* "YES" on a boolean column was coerced to true.
C15_Witness ==
    /\ Returned("get_filter") /\ call.coerce_types
    /\ call.f = Filter("active", "==", StrV("YES"), FALSE)
    /\ ret.ok /\ ret.val.rhs = BoolV(TRUE)

(***************************************************************************)
(* Properties of the structured search path                                *)
(***************************************************************************)
\* A filter as documented: an existing column, a scalar operator with a
\* scalar of the column's kind or with a comparable column, in / not in with
\* a list of such scalars, between with exactly two of them.
WellFormed(f) ==
    /\ f.column \in TableColumns
    /\ f.operator \in Operator
    /\ IF f.is_column
       THEN /\ f.operator \in ScalarOperators
            /\ f.value.t = "str" /\ f.value.s \in TableColumns
            /\ TypeClass(TableSchema[f.value.s]) = TypeClass(TableSchema[f.column])
       ELSE LET kind == TypeClass(TableSchema[f.column])
            IN IF f.operator \in ScalarOperators
               THEN f.value.t # "list" /\ ValueClass(f.value) = kind
               ELSE /\ f.value.t = "list"
                    /\ \A i \in 1..Len(f.value.l) : ValueClass(f.value.l[i]) = kind
                    /\ f.operator = "between" => Len(f.value.l) = 2

Same(x, y) == IF ValueClass(x) = "str" THEN x = y ELSE Key(x) = Key(y)

\* Whether a row satisfies a well-formed filter, by the documented meaning
\* of its operator.
Satisfies(row, f) ==
    LET x == row[f.column]
        y == IF f.is_column THEN row[f.value.s] ELSE f.value
    IN IF f.operator = ">" THEN Key(x) > Key(y)
       ELSE IF f.operator = "<" THEN Key(x) < Key(y)
       ELSE IF f.operator = "==" THEN Same(x, y)
       ELSE IF f.operator = "!=" THEN ~Same(x, y)
       ELSE IF f.operator = ">=" THEN Key(x) >= Key(y)
       ELSE IF f.operator = "<=" THEN Key(x) <= Key(y)
       ELSE IF f.operator = "in" THEN \E i \in 1..Len(y.l) : Same(x, y.l[i])
       ELSE IF f.operator = "not in" THEN \A i \in 1..Len(y.l) : ~Same(x, y.l[i])
       ELSE Key(y.l[1]) <= Key(x) /\ Key(x) <= Key(y.l[2])

SatisfiesAll(row, filters) == \A i \in 1..Len(filters) : Satisfies(row, filters[i])

\* A structured request with well-formed filters and sorts on existing
\* columns has been answered.
WellFormedAnswered ==
    /\ spc = "answered"
    /\ ~searchRequest.raw_query.given \/ searchRequest.raw_query.s = ""
    /\ \A i \in 1..Len(searchRequest.filters) : WellFormed(searchRequest.filters[i])
    /\ \A i \in 1..Len(searchRequest.sorts) : searchRequest.sorts[i].column \in TableColumns

\* The response matches exactly the rows that satisfy all the filters.
MatchesAllFilters ==
    /\ searchResponse.status = 200
    /\ searchResponse.total_rows =
          Cardinality({i \in 1..Len(TableRows) : SatisfiesAll(TableRows[i], searchRequest.filters)})
    /\ \A i \in 1..Len(searchResponse.data) :
          SatisfiesAll(searchResponse.data[i], searchRequest.filters)

\* C12: every operator of the closed set has a translation, and a request
\* with well-formed filters matches exactly the rows that satisfy all of
\* them: comparisons with their standard meaning, in / not in as membership
\* in the list, between as lo <= x <= hi.
C12_FilterSemantics == WellFormedAnswered => MatchesAllFilters

\* The same for requests with coerce_types false.
FilterSemanticsUncoerced ==
    (WellFormedAnswered /\ ~searchRequest.coerce_types) => MatchesAllFilters

\* A literal filter on an existing column whose operator and value disagree
\* in arity: a scalar operator with a list, or a list operator with a scalar.
ArityMismatch(f) ==
    /\ f.column \in TableColumns /\ ~f.is_column
    /\ \/ f.operator \in ScalarOperators /\ f.value.t = "list"
       \/ f.operator \in ListOperators /\ f.value.t # "list"

\* C13: translating a filter whose operator and value disagree in arity
\* fails with an error; it never gives an absent predicate.
C13_ArityMismatchRaises ==
    (Returned("get_filter") /\ ArityMismatch(call.f)) => (~ret.ok /\ ret.err # "")

\* What translation gives instead when coerce_types is false: no error and
\* no predicate.
ArityMismatchGivesNone ==
    (Returned("get_filter") /\ ArityMismatch(call.f) /\ ~call.coerce_types)
        => (ret.ok /\ ret.val = NoPred)

\* A literal between filter on an existing column whose list does not have
\* exactly two elements.
BadBetween(f) ==
    /\ f.column \in TableColumns /\ ~f.is_column
    /\ f.operator = "between" /\ f.value.t = "list" /\ Len(f.value.l) # 2

\* The first filter of the request that is such a between filter, every
\* filter before it being well-formed; 0 if there is none.
FirstBadBetween(request) ==
    LET bad == {i \in 1..Len(request.filters) :
                   /\ BadBetween(request.filters[i])
                   /\ \A j \in 1..(i - 1) : WellFormed(request.filters[j])}
    IN IF bad = {} THEN 0 ELSE CHOOSE i \in bad : \A j \in bad : i <= j

BetweenArityError == "AssertionError: Value for 'between' operator must be a list of two elements"

BadBetweenAnswered ==
    /\ spc = "answered"
    /\ ~searchRequest.raw_query.given \/ searchRequest.raw_query.s = ""
    /\ FirstBadBetween(searchRequest) # 0

\* C14: a between filter whose list does not have exactly two elements
\* fails with the invalid-filter error before any query is executed, and the
\* request is answered with a client-error response that carries the error's
\* class name and message.
C14_BetweenArity ==
    BadBetweenAnswered =>
        /\ searchResponse.status \in 400..499
        /\ searchResponse.error = BetweenArityError
        /\ searchResponse.data = <<>>

\* What holds with coerce_types false: the assertion of line 252 fails during
\* translation and the handler answers with status 500, class name and
\* message.
BetweenArityUncoerced ==
    (BadBetweenAnswered /\ ~searchRequest.coerce_types) =>
        searchResponse = ErrorResponse(BetweenArityError)
(***************************************************************************)
(* Properties of get_facets.                                              *)
(***************************************************************************)
\* Client c's handler runs in this step.
FacetsServed(c) == fpc[c] = "pending" /\ fpc'[c] = "done"

\* What the facet columns configured now give on the table as it is now.
FreshFacets == [i \in 1..Len(facetColumns.cols) |-> FacetOf(facetTable, facetColumns.cols[i])]

FacetsMemoStep(c) ==
    /\ ffirst.set =>
          /\ fret'[c].ok /\ fret'[c].facets = ffirst.facets /\ fqueries'[c] = 0
          /\ facetsCache' = ffirst /\ ffirst' = ffirst
    /\ (~ffirst.set /\ facetColumns.cols = <<>>) =>
          /\ fret'[c].ok /\ fret'[c].facets = <<>>
          /\ facetsCache' = FacetResponse(<<>>)
    /\ (~ffirst.set /\ facetColumns.cols # <<>>) => fqueries'[c] >= 1
    /\ ~fret'[c].ok => ~facetsCache'.set /\ ~ffirst'.set
    /\ fret'[c].ok => facetsCache'.set /\ facetsCache'.facets = fret'[c].facets

\* C16: once a facet request has succeeded, every later request returns that
\* same response without querying the table, whatever the table and the
\* configured columns have become; with no configured columns the response is
\* the empty list and it is memoized; a request that fails leaves the memo
\* unset, and the next request queries the table again.
C16_FacetMemoization ==
    /\ [](ffirst.set = facetsCache.set /\ (facetsCache.set => facetsCache = ffirst))
    /\ [][\A c \in FacetClients : FacetsServed(c) => FacetsMemoStep(c)]_vars

\* A request answered from the memo with facets that the table and columns of
\* now would not give, after another client's request had failed.
C16_Witness ==
    \E c, d \in FacetClients :
        /\ fpc[c] = "done" /\ fhit[c] /\ fret[c].ok /\ fqueries[c] = 0
        /\ facetColumns.cols # <<>>
        /\ \A i \in 1..Len(facetColumns.cols) : facetColumns.cols[i] \in TableColumns
        /\ fret[c].facets # FreshFacets
        /\ fret[c].facets # <<>>
        /\ fpc[d] = "done" /\ ~fret[d].ok /\ fret[d].err = "query failed"

\* C17: however the facet requests of one process interleave, the memo is
\* assigned at most once, and once it is set no request changes it.
C17_SingleWrite ==
    /\ [](fwrites <= 1 /\ (fwrites = 0 <=> ~facetsCache.set))
    /\ [][facetsCache.set => facetsCache' = facetsCache]_vars

\* Two requests were in flight together with the memo unset: one assigned
\* the memo while the other was pending, the other then found it set.
C17_Witness ==
    \E c, d \in FacetClients :
        /\ c # d /\ fwrites = 1
        /\ fpc[c] = "done" /\ fret[c].ok /\ ~fhit[c] /\ fconc[c]
        /\ fpc[d] = "done" /\ fret[d].ok /\ fhit[d] /\ fcalls[d] = 1
        /\ fret[d].facets = fret[c].facets

(***************************************************************************)
(* Properties of get_row_visualization.                                   *)
(***************************************************************************)
\* The handler runs in this step.
VisServed == vpc = "pending" /\ vpc' = "done"

\* The request names a row of the table, with settings the plugin accepts,
\* and the id column is configured.
Renderable ==
    /\ visSettings.id_column # None
    /\ visRequest.plugin_settings # "invalid"
    /\ RowsById(visSettings.id_column, visRequest.id) # {}

HotReloadStep ==
    /\ (visSettings.reload_plugin /\ visSettings.plugin_path # None) =>
          /\ vloads' = <<visSettings.plugin_path>>
          /\ \/ /\ vinstances' = vinstances + 1
                /\ row_visualizer_plugin' = vinstances'
                /\ Renderable =>
                      visResponse'.status = 200 /\ visResponse'.html_by = vinstances'
             \/ /\ visResponse'.status >= 400
                /\ visResponse'.error = "Failed to reload plugin"
                /\ UNCHANGED <<row_visualizer_plugin, vinstances>>
    /\ ~visSettings.reload_plugin =>
          vloads' = <<>> /\ UNCHANGED <<row_visualizer_plugin, vinstances>>

\* C18: with the reload flag set and a plugin path configured, every
\* row-visualization request calls load_plugin exactly once with that path
\* before anything else; the process-wide plugin becomes the new instance
\* and that instance renders the row (status 200); if the load raises the
\* response is an error and the process-wide plugin is unchanged; with the
\* flag not set no request loads a plugin.
C18_HotReload == [][VisServed => HotReloadStep]_vars

\* What does hold: the same, for a configuration object that has the
\* attributes reload_plugin and plugin_path.
HotReloadWithAttributes ==
    [][(VisServed /\ HasAttr(visConfig, "reload_plugin")) => HotReloadStep]_vars

\* What does hold: the configuration class declares neither attribute, and
\* with it every request ends in the AttributeError of line 359, nothing
\* loaded.
ReloadAttributeMissing ==
    [][(VisServed /\ visConfig = ViewArgsOf(visSettings)) =>
          /\ visResponse' = VisResponse(500, "AttributeError", 0)
          /\ vloads' = <<>> /\ UNCHANGED <<row_visualizer_plugin, vinstances>>]_vars

\* A second request whose reload raised, leaving the instance the first
\* request had loaded; and a request rendered by a newly loaded instance.
HotReloadReached ==
    \/ /\ vpc = "done" /\ vcalls = 2 /\ visResponse.error = "Failed to reload plugin"
       /\ row_visualizer_plugin = vbefore /\ vbefore # 0 /\ vloads = <<GoodPlugin>>
    \/ /\ vpc = "done" /\ visResponse.status = 200 /\ visResponse.html_by = row_visualizer_plugin
       /\ row_visualizer_plugin # vbefore /\ vloads = <<GoodPlugin>>

(***************************************************************************)
(* Coercion and the list operators                                        *)
(***************************************************************************)
\* A literal filter on an existing column, with a list operator and a list.
ListLiteral(f) ==
    /\ f.column \in TableColumns /\ ~f.is_column
    /\ f.operator \in ListOperators /\ f.value.t = "list"

\* Every element of the list has a coerced value of the column's type.
ElementsCoerce(f) ==
    \A i \in 1..Len(f.value.l) : coerce_value(PyStr(f.value.l[i]), TableSchema[f.column]).ok

\* The list of the coerced elements.
CoercedElements(f) ==
    ListV([i \in 1..Len(f.value.l) |->
              coerce_value(PyStr(f.value.l[i]), TableSchema[f.column]).val])

\* C22: for a literal filter with a list operator and a list value,
\* translation with coerce_types true gives the kind of predicate that
\* translation with coerce_types false gives (membership, or the inclusive
\* range over two elements), over the list of the elements coerced to the
\* column's type; the list is never collapsed into one scalar.
C22_CoercionKeepsDispatch ==
    (Returned("get_filter") /\ call.coerce_types /\ ListLiteral(call.f)
        /\ ElementsCoerce(call.f)) =>
        LET plain == get_filter(call.f, FALSE)
        IN /\ ret.ok = plain.ok
           /\ ret.val.kind = plain.pred.kind
           /\ ret.ok => (ret.val.kind \in {"isin", "notin", "between"}
                            /\ ret.val.rhs = CoercedElements(call.f))

\* What does hold: with coerce_types true the list is replaced by the
\* coerced text of str(list) before the dispatch.  On an integer, floating
\* or decimal column the conversion of that text raises ValueError; on any
\* other column the value is one scalar, no branch of the dispatch takes a
\* list operator and translation gives None.
ListCollapsedByCoercion ==
    (Returned("get_filter") /\ call.coerce_types /\ ListLiteral(call.f)) =>
        IF TypeClass(TableSchema[call.f.column]) = "num"
        THEN ~ret.ok /\ ret.val = NoPred
        ELSE ret.ok /\ ret.val = NoPred

\* Without coercion the list operators get the list itself.
ListDispatchUncoerced ==
    (Returned("get_filter") /\ ~call.coerce_types /\ ListLiteral(call.f)) =>
        IF call.f.operator = "between" /\ Len(call.f.value.l) # 2
        THEN ~ret.ok
        ELSE /\ ret.ok /\ ret.val.rhs = call.f.value
             /\ ret.val.kind = (IF call.f.operator = "in" THEN "isin"
                                ELSE IF call.f.operator = "not in" THEN "notin"
                                ELSE "between")

\* The filter age in [1, 2] translated with coerce_types true.
ListCollapsedReached ==
    /\ Returned("get_filter") /\ call.coerce_types
    /\ call.f = Filter("age", "in", ListV(<<IntV(1), IntV(2)>>), FALSE)
    /\ ~ret.ok

====
